---- MODULE Spec2Model ----
(***************************************************************************)
(* Model of the corgos-telegram-bot image queue: the Reddit class that     *)
(* loads posts (loadPostsAsync, _scrapePost), swaps the serving queue and  *)
(* serves it in rotation (getUrl / getPhoto).                              *)
(*                                                                         *)
(* Two revisions of the Reddit class are modelled side by side, selected   *)
(* by the variable rev, which never changes after Init:                    *)
(*   "scripts"  src/scripts/modules/reddit.py  (urls kept in memory)       *)
(*   "cache"    src/corgos_telegram_bot/modules/reddit.py (cache to disk)  *)
(*                                                                         *)
(* Scheduling is the one of a single asyncio event loop: a coroutine runs  *)
(* until it suspends (network or file I/O, a contended lock or semaphore,  *)
(* gather).  The variable running names the coroutine that is between two  *)
(* suspension points; nobody else may step until it suspends or ends.      *)
(* Acquiring a free asyncio.Lock or Semaphore does not suspend.            *)
(***************************************************************************)
EXTENDS Integers, Sequences, FiniteSets, TLC

----------------------------------------------------------------------------
(* Bounds of the model *)

MaxPosts == 2       \* posts returned by one listing (reddit_posts_limit)
MaxOverlapPosts == 1 \* the same, when two invocations may overlap
MaxTakes == 3       \* take-next calls recorded between two swaps
MaxValidatorPosts == 1 \* posts of the listing when every candidate is tried
PrawLimit == 1      \* reddit_praw_concurrent_requests
HttpLimit == 1      \* reddit_http_concurrent_requests

(* Program constants *)

MinScore == 5       \* default of _scrapePost's min_score

----------------------------------------------------------------------------
(* Values *)

Loaders == {"L1", "L2"}          \* overlapping invocations of loadPostsAsync
Posts == 1..MaxPosts

NoProc == [k |-> "none", l |-> "-", i |-> 0]
LoaderProc(l) == [k |-> "loader", l |-> l, i |-> 0]
TaskProc(l, i) == [k |-> "task", l |-> l, i |-> i]
ConsumerProc == [k |-> "consumer", l |-> "-", i |-> 0]

(* A url is a record of the parts the code looks at: the host, the name    *)
(* and the extension of the last path segment, and the query string.       *)
Url(h, n, e, q) == [host |-> h, name |-> n, ext |-> e, query |-> q]
UrlA == Url("i.redd.it", "a", ".jpg", "")
UrlA2 == Url("i.imgur.com", "a", ".jpg", "?s=1")
UrlG1 == Url("preview.redd.it", "g1", ".jpg", "?w=1")
UrlG2 == Url("preview.redd.it", "g2", ".webp", "?w=2")

(* Python's None, which _scrapeImage returns for a url that is no image. *)
None == Url("None", "None", "None", "None")

(* Content types a server may answer with; "error" is a raised exception. *)
ImagePng == "image/png"
ImageJpeg == "image/jpeg"
ImageJpg == "image/jpg"
TextHtml == "text/html"
HttpError == "error"
ImageWebp == "image/webp"
HttpOutcomes == {ImageJpeg, TextHtml, HttpError}

_image_formats ==
    [scripts |-> {ImagePng, ImageJpeg}, cache |-> {ImagePng, ImageJpeg, ImageJpg}]

(* A gallery entry of media_metadata: m is the declared format, u the url  *)
(* of media["s"]["u"].                                                     *)
GalleryEntry(m, u) == [m |-> m, u |-> u]

(* A submission as listed by subreddits.top(). *)
Submission(u, sticky, self, score, gallery, meta) ==
    [url |-> u, stickied |-> sticky, is_self |-> self, score |-> score,
     is_gallery |-> gallery, media_metadata |-> meta]

SubA == Submission(UrlA, FALSE, FALSE, 10, FALSE, <<>>)
SubSticky == Submission(UrlA2, TRUE, FALSE, 10, FALSE, <<>>)
SubGallery == Submission(UrlG1, FALSE, FALSE, 10, TRUE,
                  <<GalleryEntry(ImageJpeg, UrlG1), GalleryEntry(ImageWebp, UrlG2)>>)

Submissions == <<SubA, SubSticky, SubGallery>>
SubIds == 1..Len(Submissions)

(* The candidates of the validator: every combination of the fields that   *)
(* _scrapePost reads.  The scores are below, at and above min_score; the   *)
(* urls are a plain image url and one url for each marker.                 *)
UrlGif == Url("i.imgur.com", "b", ".gif", "")
UrlGifv == Url("i.imgur.com", "c", ".gifv", "")
UrlVReddit == Url("v.redd.it", "d", "", "")
Flags == <<FALSE, TRUE>>
Scores == <<MinScore - 1, MinScore, MinScore + 1>>
PostUrls == <<UrlA, UrlGif, UrlGifv, UrlVReddit>>
Metadata == << <<>>, SubGallery.media_metadata >>

Candidate(k) ==
    LET a == k % Len(Flags)
        k1 == k \div Len(Flags)
        b == k1 % Len(Flags)
        k2 == k1 \div Len(Flags)
        c == k2 % Len(Scores)
        k3 == k2 \div Len(Scores)
        d == k3 % Len(PostUrls)
        e == k3 \div Len(PostUrls)
    IN  Submission(PostUrls[d + 1], Flags[a + 1], Flags[b + 1], Scores[c + 1],
                   e > 0, Metadata[e + 1])

NCandidates == Len(Flags) * Len(Flags) * Len(Scores) * Len(PostUrls) * Len(Metadata)
Candidates == [k \in 1..NCandidates |-> Candidate(k - 1)]
CandidateIds == {Len(Submissions) + k : k \in 1..NCandidates}
AllSubmissions == Submissions \o Candidates

----------------------------------------------------------------------------
(* Sequences *)

Range(s) == {s[j] : j \in 1..Len(s)}

(* s rotated to the left by k places *)
Rotate(s, k) ==
    IF Len(s) = 0 THEN s
    ELSE [j \in 1..Len(s) |-> s[((j - 1 + k) % Len(s)) + 1]]

IsRotation(s, t) ==
    /\ Len(s) = Len(t)
    /\ \E k \in 0..Len(t) : s = Rotate(t, k)

(* list(S) followed by shuffle(): any ordering of the set *)
Shuffles(S) ==
    {f \in [1..Cardinality(S) -> S] : Range(f) = S}

NoDuplicates(s) == \A j, k \in 1..Len(s) : s[j] = s[k] => j = k

----------------------------------------------------------------------------
(* Statements on the serving queue *)

(* Variants with a slip: the head is not put back; the head is read but   *)
(* the queue is left as it is.                                             *)
Rotated_NoRequeue(q) == Tail(q)
Rotated_NoRotation(q) == q

(* url = self._queue.get(); self._queue.put(url) *)
Rotated(q) == Append(Tail(q), Head(q))

(* Variant with a slip: the old items are left in the queue. *)
Drained_NoDrain(q) == q

(* while not self._queue.empty(): self._queue.get() *)
Drained(q) == <<>>

(* Variant with a slip: nothing is put in the drained queue. *)
Filled_Nothing(q, items) == q

(* for item in loaded: self._queue.put(item) *)
Filled(q, items) == q \o items

(* Variant with a slip: the urls are put in the old queue. *)
Installed_Append(q, items) == q \o items

(* self._queue = Queue(len(self._temp_queue)), then put() of every url *)
Installed(q, items) == items

(* Variant with a slip: the test never finds the queue empty. *)
SizeIsZero_Negative(n) == n < 0

(* getUrl: if queue_size == 0 *)
SizeIsZero(n) == n = 0

----------------------------------------------------------------------------
(* The content validator: the pure parts of _scrapePost and _scrapeGallery *)

(* x in submission.url for the three markers of the scripts revision *)
ContainsGif(u) == u.ext \in {".gif", ".gifv"}
ContainsVReddit(u) == u.host = "v.redd.it"

(* Variants with a slip: the score is not looked at; a score equal to      *)
(* min_score is skipped too.                                               *)
SkipPost_NoScore(r, sub, min_score) ==
    \/ sub.stickied
    \/ sub.is_self
    \/ IF r = "scripts"
       THEN ContainsGif(sub.url) \/ ContainsVReddit(sub.url)
       ELSE ContainsVReddit(sub.url)

SkipPost_SkipsEqual(r, sub, min_score) ==
    \/ sub.stickied
    \/ sub.is_self
    \/ sub.score <= min_score
    \/ IF r = "scripts"
       THEN ContainsGif(sub.url) \/ ContainsVReddit(sub.url)
       ELSE ContainsVReddit(sub.url)

(* The early returns of _scrapePost: TRUE when the post is skipped. *)
SkipPost(r, sub, min_score) ==
    \/ sub.stickied
    \/ sub.is_self
    \/ sub.score < min_score
    \/ IF r = "scripts"
       THEN ContainsGif(sub.url) \/ ContainsVReddit(sub.url)
       ELSE ContainsVReddit(sub.url)

(* _scrapeGallery: TRUE for the entries the loop does not skip, i.e. the   *)
(* entries whose declared format is not in _image_formats.                 *)
GalleryKeeps(r, entry) ==
    /\ entry.m # "missing"
    /\ entry.m \notin _image_formats[r]
    /\ entry.u # None

(* First entry at or after position j that the gallery loop does not skip, *)
(* Len + 1 when there is none.                                             *)
RECURSIVE NextGalleryIdx(_, _, _)
NextGalleryIdx(r, meta, j) ==
    IF j > Len(meta) THEN Len(meta) + 1
    ELSE IF GalleryKeeps(r, meta[j]) THEN j
    ELSE NextGalleryIdx(r, meta, j + 1)

(* _scrapeGallery of the cache revision, which checks nothing on the net:  *)
(* the urls of the entries it does not skip, in order.                     *)
RECURSIVE ScrapeGalleryCache(_, _)
ScrapeGalleryCache(meta, j) ==
    IF j > Len(meta) THEN <<>>
    ELSE (IF GalleryKeeps("cache", meta[j]) THEN <<meta[j].u>> ELSE <<>>)
         \o ScrapeGalleryCache(meta, j + 1)

(* _scrapeImage: the url when the content type is an image, else None. *)
ScrapeImage(r, url, outcome) ==
    IF outcome \in _image_formats[r] THEN url ELSE None

(* _extractFilenameFromUrl: "<x>_<last path segment without the query>" in *)
(* the cache folder.                                                       *)
ExtractFilenameFromUrl(x, url) == [x |-> x, name |-> url.name, ext |-> url.ext]

----------------------------------------------------------------------------
(* Settings: values *)

Callers == {"S1", "S2", "S3"}    \* coroutines that use a Settings object
Paths == {"settings.json", "other.json"}
NoCaller == "nobody"                \* the holder of a free _data_lock

(* Keys of the settings file, and a key that no file has. *)
Counter == "telegram_corgos_sent"
Banned == "telegram_banned"
Missing == "non_existent_key"

(* A Python value: its type and its content as a sequence of integers (an  *)
(* int is a sequence of length one, a str the digits it is made of).       *)
PyInt(n) == [kind |-> "int", items |-> <<n>>]
PyList(s) == [kind |-> "list", items |-> s]
PyTuple(s) == [kind |-> "tuple", items |-> s]
NoValue == [kind |-> "NoneType", items |-> <<>>]

(* str(value), the serializer of the tests. *)
Str(v) == [kind |-> "str", items |-> v.items]

(* Variant with a slip: everything is written as a string. *)
Dumps_AsString(v) == [kind |-> "string", items |-> v.items]

(* ujson.dumps of a value: a JSON number, string or array.  Lists and      *)
(* tuples both become arrays.                                              *)
Dumps(v) ==
    [kind |-> CASE v.kind = "int" -> "number"
                [] v.kind = "str" -> "string"
                [] v.kind \in {"list", "tuple"} -> "array"
                [] OTHER -> "null",
     items |-> v.items]

(* ujson.loads of a JSON value: an array always becomes a list. *)
Loads(j) ==
    [kind |-> CASE j.kind = "number" -> "int"
                [] j.kind = "string" -> "str"
                [] j.kind = "array" -> "list"
                [] OTHER -> "NoneType",
     items |-> j.items]

(* The same for a whole mapping. *)
DumpsAll(m) == [k \in DOMAIN m |-> Dumps(m[k])]
LoadsAll(d) == [k \in DOMAIN d |-> Loads(d[k])]

(* A file: ok is false when it holds no JSON document, which is the state  *)
(* of a file opened with mode "w" until the write reaches it.              *)
EmptyMap == [k \in {} |-> NoValue]
Truncated == [ok |-> FALSE, doc |-> EmptyMap]
Document(d) == [ok |-> TRUE, doc |-> d]

(* The settings the run starts with. *)
InitialSettings ==
    [k \in {Counter, Banned} |->
        IF k = Counter THEN PyInt(0) ELSE PyList(<<1>>)]

(* sorted(set(banned)) for the lists of the model, of length two at most. *)
SortedSet(s) ==
    IF Len(s) = 2
    THEN IF s[1] = s[2] THEN <<s[1]>>
         ELSE IF s[1] < s[2] THEN s ELSE <<s[2], s[1]>>
    ELSE s

(* list.remove(x): the list without the first occurrence of x. *)
ListRemove(s, x) ==
    LET j == CHOOSE j \in 1..Len(s) :
                 s[j] = x /\ \A h \in 1..(j - 1) : s[h] # x
    IN  [h \in 1..(Len(s) - 1) |-> IF h < j THEN s[h] ELSE s[h + 1]]

(* The functions given to apply: lambda x: x + 1, and pop_number of the    *)
(* tests, which mutates the list it is given and returns it.               *)
FuncRaises(how, v) ==
    CASE how = "inc" -> v.kind # "int"
      [] how = "pop" -> v.kind # "list" \/ Len(v.items) = 0
      [] OTHER -> FALSE

Func(how, v) ==
    CASE how = "inc" -> PyInt(v.items[1] + 1)
      [] how = "pop" -> PyList(SubSeq(v.items, 1, Len(v.items) - 1))
      [] OTHER -> v

(* A call of a coroutine on a Settings object. *)
Call(op, key, value, how) ==
    [op |-> op, key |-> key, value |-> value, how |-> how]
NoCall == Call("none", "-", NoValue, "-")

(* An exception that a call raised, as the result of the call. *)
Raised(name) == [kind |-> name, items |-> <<>>]

(* The key of SingletonMeta._instances: the class alone in the scripts     *)
(* revision, the class and the path in the cache revision.  An instance is *)
(* created with the path that its __init__ stores in _path.                *)
SettingsCls == "Settings"
KeyTuple(r, path) == IF r = "scripts" THEN SettingsCls ELSE path

(* The Settings objects that may come to exist, one more than there are    *)
(* paths; 0 stands for no object.                                          *)
Instances == 1..(Cardinality(Paths) + 1)
NoInstance == 0
NoPath == "no path"

(* Variant with a slip: the key is never found. *)
InInstances_Never(instances, key_tuple) == FALSE

(* `key_tuple in cls._instances` *)
InInstances(instances, key_tuple) == instances[key_tuple] # NoInstance

----------------------------------------------------------------------------
VARIABLES
    rev,              \* the revision of the Reddit class
    queue,            \* Reddit._queue, head first
    temp_queue,       \* Reddit._temp_queue
    cache_folder,     \* the files of the folder reddit_cache_folder
    queue_lock,       \* holder of Reddit._queue_lock, NoProc when free
    temp_queue_lock,  \* holder of Reddit._temp_queue_lock
    is_loading,       \* Reddit._is_loading
    praw_permits,     \* free slots of _praw_requests_semaphore
    http_permits,     \* free slots of _http_requests_semaphore
    running,          \* the coroutine that has not suspended yet
    lpc,              \* position of each loadPostsAsync invocation
    nposts,           \* number of _scrapePost coroutines it created
    loaded,           \* the local list `loaded` / `shuffled_queue`
    lret,             \* value returned by loadPostsAsync, -1 before
    tpc,              \* position of each _scrapePost task
    tsub,             \* the submission of the task (index in Submissions)
    tidx,             \* position in the gallery / index x of the download
    turls,            \* scraped_urls / urls still to add
    cpc,              \* position of the consumer call
    cop,              \* the consumer operation in progress
    csize,            \* queue_size read by getUrl / result of a size call
    cres,             \* result of the last take-next call
    base,             \* history: the contents installed by the last swap
    returned,         \* history: values returned by take-next since then
    last_swap,        \* history: what the last swap found in the queue
    load_started,     \* history: loadPostsAsync has been called
    nadded,           \* history: adds to _temp_queue by the tasks of a pass
    feed,             \* environment: the posts a listing can yield
    posts_limit,      \* environment: the setting reddit_posts_limit
    slots,            \* environment: the invocations that may overlap
    recording,        \* environment: whether `returned` is kept
    seen_idle,        \* history: no load job was pending or executing when
                      \* /corgo last found the queue empty
    _instances,       \* SingletonMeta._instances
    _path,            \* Settings._path of each instance
    _settings,        \* Settings._settings of each instance
    _data_lock,       \* holder of Settings._data_lock of each instance
    file,             \* the file at each path
    spc,              \* position of each caller in its call
    sref,             \* the Settings object each caller holds
    scall,            \* the call each caller is making
    sret,             \* what the last call of each caller returned or raised
    sleft,            \* calls each caller may still start
    sarg,             \* history: the path each caller constructed with
    menu              \* environment: the calls the callers choose from

vars == <<rev, queue, temp_queue, cache_folder, queue_lock, temp_queue_lock, is_loading,
          praw_permits, http_permits, running, lpc, nposts, loaded, lret,
          tpc, tsub, tidx, turls, cpc, cop, csize, cres,
          base, returned, last_swap, load_started, nadded, feed, posts_limit,
          slots, recording, seen_idle, _instances, _path, _settings,
          _data_lock,
          file, spc, sref, scall, sret, sleft, sarg, menu>>

redditVars == <<queue, temp_queue, queue_lock, temp_queue_lock, is_loading>>
semVars == <<praw_permits, http_permits>>
loaderVars == <<lpc, nposts, loaded, lret>>
taskVars == <<tpc, tsub, tidx, turls>>
consumerVars == <<cpc, cop, csize, cres>>
settingVars == <<feed, posts_limit, slots, recording>>
storeVars == <<_instances, _path, _settings, _data_lock, file>>
callerVars == <<spc, sref, scall, sret, sleft, sarg, menu>>
envVars == <<settingVars, seen_idle, storeVars, callerVars, cache_folder>>
histVars == <<base, returned, last_swap, load_started, nadded, envVars>>

NoResult == "no result"
EmptyQueueException == "EmptyQueueException"

(* The files as the run finds them: each path holds the same document. *)
InitFiles == file = [p \in Paths |-> Document(DumpsAll(InitialSettings))]

(* Settings(MainPath) constructed and loaded, as Reddit.start and          *)
(* Telegram.start do; the callers in cs hold the object and may each make  *)
(* quota calls chosen from m.                                              *)
MainPath == "settings.json"
MainInstance == 1

InitSettings(cs, quota, m) ==
    /\ InitFiles
    /\ _instances = [k \in Paths \cup {SettingsCls} |->
                        IF k = KeyTuple(rev, MainPath) THEN MainInstance
                        ELSE NoInstance]
    /\ _path = [i \in Instances |->
                   IF i = MainInstance THEN MainPath ELSE NoPath]
    /\ _settings = [i \in Instances |->
                       IF i = MainInstance THEN InitialSettings
                       ELSE EmptyMap]
    /\ _data_lock = [i \in Instances |-> NoCaller]
    /\ spc = [c \in Callers |-> "idle"]
    /\ sref = [c \in Callers |-> MainInstance]
    /\ scall = [c \in Callers |-> NoCall]
    /\ sret = [c \in Callers |-> NoValue]
    /\ sleft = [c \in Callers |-> IF c \in cs THEN quota ELSE 0]
    /\ sarg = [c \in Callers |-> MainPath]
    /\ menu = m

(* Reddit.__init__ and the part of Reddit.start that sets up the queue,    *)
(* with praw as the value of reddit_praw_concurrent_requests and with the  *)
(* load jobs that the job queue holds.                                     *)
InitQueue(praw, jobs) ==
    /\ rev \in {"scripts", "cache"}
    /\ queue = <<>>
    /\ temp_queue = {}
    /\ cache_folder = {}
    /\ queue_lock = NoProc
    /\ temp_queue_lock = NoProc
    /\ is_loading = FALSE
    /\ praw_permits = praw
    /\ http_permits = HttpLimit
    /\ running = NoProc
    /\ lpc = jobs
    /\ nposts = [l \in Loaders |-> 0]
    /\ loaded = [l \in Loaders |-> <<>>]
    /\ lret = [l \in Loaders |-> -1]
    /\ tpc = [l \in Loaders |-> [i \in Posts |-> "none"]]
    /\ tsub = [l \in Loaders |-> [i \in Posts |-> 0]]
    /\ tidx = [l \in Loaders |-> [i \in Posts |-> 0]]
    /\ turls = [l \in Loaders |-> [i \in Posts |-> <<>>]]
    /\ cpc = "idle"
    /\ cop = "none"
    /\ csize = -1
    /\ cres = NoResult
    /\ base = <<>>
    /\ returned = <<>>
    /\ last_swap = "none"
    /\ load_started = FALSE
    /\ nadded = [l \in Loaders |-> 0]
    /\ seen_idle = FALSE

(* Reddit.__init__ followed by Reddit.start; nobody calls the Settings     *)
(* object afterwards.                                                      *)
InitRedditWith(praw, jobs) ==
    /\ InitQueue(praw, jobs)
    /\ InitSettings({}, 0, {})

NoJobs == [l \in Loaders |-> "idle"]

InitReddit == InitRedditWith(PrawLimit, NoJobs)

(* One invocation of loadPostsAsync at a time, its tasks and the           *)
(* consumers; the values that take-next returned are kept in `returned`.   *)
Init ==
    /\ InitReddit
    /\ feed = SubIds
    /\ posts_limit = MaxPosts
    /\ slots = {"L1"}
    /\ recording = TRUE

(* Two invocations of loadPostsAsync may overlap (the job of the startup,  *)
(* the daily job, the job a /corgo request adds).                          *)
InitOverlap ==
    /\ InitReddit
    /\ feed = {1, 2}
    /\ posts_limit = MaxOverlapPosts
    /\ slots = Loaders
    /\ recording = FALSE

(* Variant with a slip: a coroutine may be suspended between any two of    *)
(* its statements, as a thread may.                                        *)
CanRun_Preempted(p) == TRUE

(* A coroutine runs when the event loop is free or when it is the one that *)
(* has not suspended yet.                                                  *)
CanRun(p) == running \in {NoProc, p}

----------------------------------------------------------------------------
(* loadPostsAsync *)

(* No task of a previous invocation of this slot is still executing. *)
TasksQuiet(l) == \A i \in Posts : tpc[l][i] = "none"

(* The position a task is left in when it ends: the outcome while its      *)
(* invocation waits in gather(), nothing once the invocation is over.      *)
TaskEnd(l, outcome) == IF lpc[l] = "idle" THEN "none" ELSE outcome

(* Two invocations overlap at most; the slot L2 is used for the one that   *)
(* starts while another is executing.                                      *)
SlotFree(l) ==
    /\ l \in slots
    /\ lpc[l] = "idle"
    /\ l = "L2" => lpc["L1"] # "idle"

(* loadPostsAsync is called.  The scripts revision enters                  *)
(* `async with self._temp_queue_lock`; the cache revision sets the flag    *)
(* and suspends in the listing.                                            *)
LoadCall(l) ==
    /\ TasksQuiet(l)
    /\ running = NoProc
    /\ load_started' = TRUE
    /\ IF rev = "scripts"
       THEN /\ temp_queue_lock = NoProc
            /\ temp_queue_lock' = LoaderProc(l)
            /\ lpc' = [lpc EXCEPT ![l] = "reset_locked"]
            /\ running' = LoaderProc(l)
            /\ UNCHANGED is_loading
       ELSE /\ is_loading' = TRUE
            /\ lpc' = [lpc EXCEPT ![l] = "listing"]
            /\ running' = NoProc
            /\ UNCHANGED temp_queue_lock
    /\ UNCHANGED <<rev, queue, temp_queue, queue_lock, semVars, nposts, loaded,
                   lret, taskVars, consumerVars, base, returned, last_swap,
                   nadded, envVars>>

(* A job of the job queue calls loadPostsAsync. *)
LoadBegin(l) == SlotFree(l) /\ LoadCall(l)

(* Variant with a slip: the serving queue is emptied with the staging set. *)
LoadReset_EmptiesQueue(l) ==
    /\ lpc[l] = "reset_locked"
    /\ CanRun(LoaderProc(l))
    /\ temp_queue' = {}
    /\ queue' = <<>>
    /\ is_loading' = TRUE
    /\ temp_queue_lock' = NoProc
    /\ lpc' = [lpc EXCEPT ![l] = "listing"]
    /\ running' = NoProc
    /\ UNCHANGED <<rev, queue_lock, semVars, nposts, loaded, lret,
                   taskVars, consumerVars, histVars>>

(* scripts: the body of `async with self._temp_queue_lock` and its exit;   *)
(* the coroutine then suspends in the listing.                             *)
LoadReset(l) ==
    /\ lpc[l] = "reset_locked"
    /\ CanRun(LoaderProc(l))
    /\ temp_queue' = {}
    /\ is_loading' = TRUE
    /\ temp_queue_lock' = NoProc
    /\ lpc' = [lpc EXCEPT ![l] = "listing"]
    /\ running' = NoProc
    /\ UNCHANGED <<rev, queue, queue_lock, semVars, nposts, loaded, lret,
                   taskVars, consumerVars, histVars>>

(* subreddits.top() yields its posts: one _scrapePost coroutine is created *)
(* for each, and gather() schedules them and suspends the invocation.      *)
(* The coroutines are collected in a set, so the order of the listing      *)
(* carries nothing: the posts are taken up to their order.                 *)
ListPosts(l) ==
    /\ lpc[l] = "listing"
    /\ CanRun(LoaderProc(l))
    /\ \E n \in 0..posts_limit : \E f \in [1..n -> feed] :
         /\ \A i \in 1..(n - 1) : f[i] <= f[i + 1]
         /\ nposts' = [nposts EXCEPT ![l] = n]
         /\ tpc' = [tpc EXCEPT ![l] =
                      [i \in Posts |-> IF i <= n THEN "ready" ELSE "none"]]
         /\ tsub' = [tsub EXCEPT ![l] =
                      [i \in Posts |-> IF i <= n THEN f[i] ELSE 0]]
    /\ lpc' = [lpc EXCEPT ![l] = "gather"]
    /\ running' = NoProc
    /\ UNCHANGED <<rev, redditVars, semVars, loaded, lret, tidx, turls,
                   consumerVars, histVars>>

(* The listing raises (connectivity, authentication): the exception leaves *)
(* loadPostsAsync.                                                         *)
ListFail(l) ==
    /\ lpc[l] = "listing"
    /\ CanRun(LoaderProc(l))
    /\ lpc' = [lpc EXCEPT ![l] = "list_failed"]
    /\ running' = LoaderProc(l)
    /\ UNCHANGED <<rev, redditVars, semVars, nposts, loaded, lret, taskVars,
                   consumerVars, histVars>>

(* Variant with a slip: the invocation goes on when the first task has     *)
(* returned.                                                               *)
GatherDone_FirstTask(l) ==
    /\ lpc[l] = "gather"
    /\ running = NoProc
    /\ \E i \in 1..nposts[l] : tpc[l][i] = "done"
    /\ IF rev = "scripts"
       THEN /\ lpc' = [lpc EXCEPT ![l] = "swap"]
            /\ running' = LoaderProc(l)
       ELSE /\ lpc' = [lpc EXCEPT ![l] = "cleanup"]
            /\ running' = NoProc
    /\ UNCHANGED <<rev, redditVars, semVars, nposts, loaded, lret, taskVars,
                   consumerVars, histVars>>

(* gather() returns: every task has returned.  The scripts revision goes   *)
(* on to the swap without suspending, the cache revision suspends in the   *)
(* listing of the cache folder.                                            *)
GatherDone(l) ==
    /\ lpc[l] = "gather"
    /\ running = NoProc
    /\ \A i \in 1..nposts[l] : tpc[l][i] = "done"
    /\ IF rev = "scripts"
       THEN /\ lpc' = [lpc EXCEPT ![l] = "swap"]
            /\ running' = LoaderProc(l)
       ELSE /\ lpc' = [lpc EXCEPT ![l] = "cleanup"]
            /\ running' = NoProc
    /\ UNCHANGED <<rev, redditVars, semVars, nposts, loaded, lret, taskVars,
                   consumerVars, histVars>>

(* gather() without return_exceptions re-raises the first exception of a   *)
(* task; the other tasks are not cancelled and keep running.               *)
GatherRaise(l) ==
    /\ lpc[l] = "gather"
    /\ running = NoProc
    /\ \E i \in 1..nposts[l] : tpc[l][i] = "raised"
    /\ lpc' = [lpc EXCEPT ![l] = "task_failed"]
    /\ running' = LoaderProc(l)
    /\ UNCHANGED <<rev, redditVars, semVars, nposts, loaded, lret, taskVars,
                   consumerVars, histVars>>

(* cache: the files of the cache folder that are not in _temp_queue are    *)
(* removed (file I/O, suspends); what follows runs without suspending.     *)
CleanupCache(l) ==
    /\ lpc[l] = "cleanup"
    /\ running = NoProc
    /\ cache_folder' = cache_folder \cap temp_queue
    /\ lpc' = [lpc EXCEPT ![l] = "shuffle"]
    /\ running' = LoaderProc(l)
    /\ UNCHANGED <<rev, redditVars, semVars, nposts, loaded, lret, taskVars,
                   consumerVars, base, returned, last_swap, load_started,
                   nadded, settingVars, seen_idle, storeVars, callerVars>>

(* cache: loaded = list(self._temp_queue); shuffle(loaded) *)
ShuffleLoaded(l) ==
    /\ lpc[l] = "shuffle"
    /\ CanRun(LoaderProc(l))
    /\ \E perm \in Shuffles(temp_queue) : loaded' = [loaded EXCEPT ![l] = perm]
    /\ lpc' = [lpc EXCEPT ![l] = "swap"]
    /\ running' = LoaderProc(l)
    /\ UNCHANGED <<rev, redditVars, semVars, nposts, lret, taskVars,
                   consumerVars, histVars>>

(* The swap takes the queue lock. *)
SwapAcquireQueue(l) ==
    /\ lpc[l] = "swap"
    /\ CanRun(LoaderProc(l))
    /\ queue_lock = NoProc
    /\ queue_lock' = LoaderProc(l)
    /\ last_swap' = IF queue = <<>> THEN "over empty" ELSE "over items"
    /\ lpc' = [lpc EXCEPT ![l] = "swap_q"]
    /\ running' = LoaderProc(l)
    /\ UNCHANGED <<rev, queue, temp_queue, temp_queue_lock, is_loading, semVars,
                   nposts, loaded, lret, taskVars, consumerVars,
                   base, returned, load_started, nadded, envVars>>

(* scripts: await self._temp_queue_lock.acquire() *)
SwapAcquireTemp(l) ==
    /\ rev = "scripts"
    /\ lpc[l] = "swap_q"
    /\ CanRun(LoaderProc(l))
    /\ temp_queue_lock = NoProc
    /\ temp_queue_lock' = LoaderProc(l)
    /\ lpc' = [lpc EXCEPT ![l] = "swap_qt"]
    /\ running' = LoaderProc(l)
    /\ UNCHANGED <<rev, queue, temp_queue, queue_lock, is_loading, semVars,
                   nposts, loaded, lret, taskVars, consumerVars, histVars>>

(* scripts: a new Queue is filled with the shuffled _temp_queue and        *)
(* replaces _queue; _is_loading is cleared.                                *)
SwapInstall(l) ==
    /\ lpc[l] = "swap_qt"
    /\ CanRun(LoaderProc(l))
    /\ \E perm \in Shuffles(temp_queue) :
         /\ loaded' = [loaded EXCEPT ![l] = perm]
         /\ queue' = Installed(queue, perm)
         /\ base' = perm
    /\ returned' = <<>>
    /\ is_loading' = FALSE
    /\ lpc' = [lpc EXCEPT ![l] = "installed"]
    /\ running' = LoaderProc(l)
    /\ UNCHANGED <<rev, temp_queue, queue_lock, temp_queue_lock, semVars,
                   nposts, lret, taskVars, consumerVars, last_swap,
                   load_started, nadded, envVars>>

(* Variant with a slip: the staging lock is not given back. *)
SwapReleaseTemp_Keeps(l) ==
    /\ rev = "scripts"
    /\ lpc[l] = "installed"
    /\ CanRun(LoaderProc(l))
    /\ lpc' = [lpc EXCEPT ![l] = "released_t"]
    /\ running' = LoaderProc(l)
    /\ UNCHANGED <<rev, redditVars, semVars, nposts, loaded, lret, taskVars,
                   consumerVars, histVars>>

(* scripts: self._temp_queue_lock.release() *)
SwapReleaseTemp(l) ==
    /\ rev = "scripts"
    /\ lpc[l] = "installed"
    /\ CanRun(LoaderProc(l))
    /\ temp_queue_lock' = NoProc
    /\ lpc' = [lpc EXCEPT ![l] = "released_t"]
    /\ running' = LoaderProc(l)
    /\ UNCHANGED <<rev, queue, temp_queue, queue_lock, is_loading, semVars,
                   nposts, loaded, lret, taskVars, consumerVars, histVars>>

(* cache: while not self._queue.empty(): self._queue.get() *)
DrainQueue(l) ==
    /\ rev = "cache"
    /\ lpc[l] = "swap_q"
    /\ CanRun(LoaderProc(l))
    /\ queue' = Drained(queue)
    /\ lpc' = [lpc EXCEPT ![l] = "drained"]
    /\ running' = LoaderProc(l)
    /\ UNCHANGED <<rev, temp_queue, queue_lock, temp_queue_lock, is_loading,
                   semVars, nposts, loaded, lret, taskVars, consumerVars,
                   histVars>>

(* cache: for item in loaded: self._queue.put(item) *)
FillQueue(l) ==
    /\ lpc[l] = "drained"
    /\ CanRun(LoaderProc(l))
    /\ queue' = Filled(queue, loaded[l])
    /\ base' = loaded[l]
    /\ returned' = <<>>
    /\ lpc' = [lpc EXCEPT ![l] = "installed"]
    /\ running' = LoaderProc(l)
    /\ UNCHANGED <<rev, temp_queue, queue_lock, temp_queue_lock, is_loading,
                   semVars, nposts, loaded, lret, taskVars, consumerVars,
                   last_swap, load_started, nadded, envVars>>

(* The swap gives the queue lock back: self._queue_lock.release() in the   *)
(* scripts revision, the end of `async with` in the cache revision.        *)
SwapReleaseQueue(l) ==
    /\ lpc[l] = IF rev = "scripts" THEN "released_t" ELSE "installed"
    /\ CanRun(LoaderProc(l))
    /\ queue_lock' = NoProc
    /\ lpc' = [lpc EXCEPT ![l] =
                 IF rev = "scripts" THEN "returning" ELSE "released_q"]
    /\ running' = LoaderProc(l)
    /\ UNCHANGED <<rev, queue, temp_queue, temp_queue_lock, is_loading, semVars,
                   nposts, loaded, lret, taskVars, consumerVars, histVars>>

(* cache: self._is_loading = False, after the lock is released *)
ClearLoading(l) ==
    /\ lpc[l] = "released_q"
    /\ CanRun(LoaderProc(l))
    /\ is_loading' = FALSE
    /\ lpc' = [lpc EXCEPT ![l] = "returning"]
    /\ running' = LoaderProc(l)
    /\ UNCHANGED <<rev, queue, temp_queue, queue_lock, temp_queue_lock, semVars,
                   nposts, loaded, lret, taskVars, consumerVars, histVars>>

(* Variant with a slip: the number of posts that were listed is returned.  *)
LoadReturn_Listed(l) ==
    /\ lpc[l] = "returning"
    /\ CanRun(LoaderProc(l))
    /\ lret' = [lret EXCEPT ![l] = nposts[l]]
    /\ lpc' = [lpc EXCEPT ![l] = "returned"]
    /\ running' = LoaderProc(l)
    /\ UNCHANGED <<rev, redditVars, semVars, nposts, loaded, taskVars,
                   consumerVars, histVars>>

(* return self._queue.qsize()  /  return len(loaded) *)
LoadReturn(l) ==
    /\ lpc[l] = "returning"
    /\ CanRun(LoaderProc(l))
    /\ lret' = [lret EXCEPT ![l] =
                  IF rev = "scripts" THEN Len(queue) ELSE Len(loaded[l])]
    /\ lpc' = [lpc EXCEPT ![l] = "returned"]
    /\ running' = LoaderProc(l)
    /\ UNCHANGED <<rev, redditVars, semVars, nposts, loaded, taskVars,
                   consumerVars, histVars>>

(* The invocation is over: it returned to the job that called it, or its   *)
(* exception left loadPostsAsync.  Its locals are gone; the tasks that     *)
(* are still running go on.                                                *)
LoadEnd(l) ==
    /\ lpc[l] \in {"returned", "list_failed", "task_failed"}
    /\ CanRun(LoaderProc(l))
    /\ lpc' = [lpc EXCEPT ![l] = "idle"]
    /\ nposts' = [nposts EXCEPT ![l] = 0]
    /\ loaded' = [loaded EXCEPT ![l] = <<>>]
    /\ lret' = [lret EXCEPT ![l] = -1]
    /\ tpc' = [tpc EXCEPT ![l] =
                 [i \in Posts |-> IF tpc[l][i] \in {"done", "raised"}
                                  THEN "none" ELSE tpc[l][i]]]
    /\ running' = NoProc
    /\ nadded' = [nadded EXCEPT ![l] = 0]
    /\ UNCHANGED <<rev, redditVars, semVars, tsub, tidx, turls, consumerVars,
                   base, returned, last_swap, load_started, envVars>>

----------------------------------------------------------------------------
(* _scrapePost, one task per listed post *)

SubOf(l, i) == AllSubmissions[tsub[l][i]]

(* The url a scripts task is checking: the gallery entry at tidx, or the   *)
(* url of the post.                                                        *)
FetchUrl(l, i) ==
    IF SubOf(l, i).is_gallery
    THEN SubOf(l, i).media_metadata[tidx[l][i]].u
    ELSE SubOf(l, i).url

(* One more add to _temp_queue by a task of an invocation that is still    *)
(* executing.                                                              *)
Counted(l) ==
    IF lpc[l] = "idle" THEN nadded ELSE [nadded EXCEPT ![l] = nadded[l] + 1]

(* The task returns or raises: its locals are gone. *)
TaskOver(l, i, outcome) ==
    /\ tpc' = [tpc EXCEPT ![l][i] = TaskEnd(l, outcome)]
    /\ tsub' = [tsub EXCEPT ![l][i] = 0]
    /\ tidx' = [tidx EXCEPT ![l][i] = 0]
    /\ turls' = [turls EXCEPT ![l][i] = <<>>]
    /\ running' = NoProc

(* The task enters `async with self._praw_requests_semaphore` and runs the *)
(* checks.  A skipped post returns False at once; otherwise the scripts    *)
(* revision suspends in submission.load() and the cache revision in the    *)
(* first download.                                                         *)
TaskStart(l, i) ==
    /\ tpc[l][i] = "ready"
    /\ running = NoProc
    /\ praw_permits > 0
    /\ LET sub == SubOf(l, i)
           urls == IF sub.is_gallery
                   THEN ScrapeGalleryCache(sub.media_metadata, 1)
                   ELSE <<sub.url>>
       IN  IF SkipPost(rev, sub, MinScore)
           THEN /\ TaskOver(l, i, "done")
                /\ UNCHANGED praw_permits
           ELSE IF rev = "scripts"
           THEN /\ tpc' = [tpc EXCEPT ![l][i] = "loading"]
                /\ praw_permits' = praw_permits - 1
                /\ running' = NoProc
                /\ UNCHANGED <<tsub, tidx, turls>>
           ELSE IF urls = <<>>
           THEN /\ TaskOver(l, i, "done")
                /\ UNCHANGED praw_permits
           ELSE /\ tpc' = [tpc EXCEPT ![l][i] = "download"]
                /\ turls' = [turls EXCEPT ![l][i] = urls]
                /\ praw_permits' = praw_permits - 1
                /\ running' = NoProc
                /\ UNCHANGED <<tsub, tidx>>
    /\ UNCHANGED <<rev, redditVars, http_permits, loaderVars, consumerVars,
                   histVars>>

(* scripts: submission.load() returns.  A gallery whose entries are all    *)
(* skipped adds nothing and returns True; otherwise the task goes for the  *)
(* http semaphore of _asyncRequest.                                        *)
TaskLoad(l, i) ==
    /\ tpc[l][i] = "loading"
    /\ running = NoProc
    /\ LET sub == SubOf(l, i)
           j == NextGalleryIdx(rev, sub.media_metadata, 1)
       IN  IF sub.is_gallery /\ j > Len(sub.media_metadata)
           THEN /\ TaskOver(l, i, "done")
                /\ praw_permits' = praw_permits + 1
           ELSE /\ tpc' = [tpc EXCEPT ![l][i] = "http_wait"]
                /\ tidx' = [tidx EXCEPT ![l][i] = IF sub.is_gallery THEN j ELSE 0]
                /\ running' = NoProc
                /\ UNCHANGED <<praw_permits, tsub, turls>>
    /\ UNCHANGED <<rev, redditVars, http_permits, loaderVars, consumerVars,
                   histVars>>

(* Variant with a slip: the exception leaves the task with its permit. *)
TaskLoadFail_KeepsPermit(l, i) ==
    /\ tpc[l][i] = "loading"
    /\ running = NoProc
    /\ TaskOver(l, i, "raised")
    /\ UNCHANGED <<rev, redditVars, semVars, loaderVars, consumerVars,
                   histVars>>

(* scripts: submission.load() raises; nothing in _scrapePost catches it,   *)
(* the semaphore is released by `async with` and the task ends raising.    *)
TaskLoadFail(l, i) ==
    /\ tpc[l][i] = "loading"
    /\ running = NoProc
    /\ TaskOver(l, i, "raised")
    /\ praw_permits' = praw_permits + 1
    /\ UNCHANGED <<rev, redditVars, http_permits, loaderVars, consumerVars,
                   histVars>>

(* scripts: `async with self._http_requests_semaphore`, then session.get   *)
(* suspends.                                                               *)
TaskHttpAcquire(l, i) ==
    /\ tpc[l][i] = "http_wait"
    /\ running = NoProc
    /\ http_permits > 0
    /\ http_permits' = http_permits - 1
    /\ tpc' = [tpc EXCEPT ![l][i] = "fetching"]
    /\ running' = NoProc
    /\ UNCHANGED <<rev, redditVars, praw_permits, loaderVars, tsub, tidx, turls,
                   consumerVars, histVars>>

(* scripts: the request ends, with a content type or with an exception     *)
(* that _scrapeImage catches.  A post that is not a gallery appends what   *)
(* _scrapeImage returned, None included; a gallery appends the url when it *)
(* is an image and goes on with its next entry.                            *)
TaskHttpResponse(l, i) ==
    /\ tpc[l][i] = "fetching"
    /\ running = NoProc
    /\ http_permits' = http_permits + 1
    /\ \E outcome \in HttpOutcomes :
         LET sub == SubOf(l, i)
             r == ScrapeImage(rev, FetchUrl(l, i), outcome)
             j == NextGalleryIdx(rev, sub.media_metadata, tidx[l][i] + 1)
             urls == IF ~sub.is_gallery THEN <<r>>
                     ELSE IF r # None THEN Append(turls[l][i], r)
                     ELSE turls[l][i]
         IN  IF sub.is_gallery /\ j <= Len(sub.media_metadata)
             THEN /\ turls' = [turls EXCEPT ![l][i] = urls]
                  /\ tidx' = [tidx EXCEPT ![l][i] = j]
                  /\ tpc' = [tpc EXCEPT ![l][i] = "http_wait"]
                  /\ running' = NoProc
                  /\ UNCHANGED <<praw_permits, tsub>>
             ELSE IF urls = <<>>
             THEN /\ TaskOver(l, i, "done")
                  /\ praw_permits' = praw_permits + 1
             ELSE /\ turls' = [turls EXCEPT ![l][i] = urls]
                  /\ tpc' = [tpc EXCEPT ![l][i] = "add"]
                  /\ running' = TaskProc(l, i)
                  /\ UNCHANGED <<tidx, praw_permits, tsub>>
    /\ UNCHANGED <<rev, redditVars, loaderVars, consumerVars, histVars>>

(* Variant with a slip: the task takes the queue lock as well. *)
TaskAddAcquire_QueueLock(l, i) ==
    /\ tpc[l][i] = "add"
    /\ CanRun(TaskProc(l, i))
    /\ temp_queue_lock = NoProc
    /\ queue_lock = NoProc
    /\ temp_queue_lock' = TaskProc(l, i)
    /\ queue_lock' = TaskProc(l, i)
    /\ tpc' = [tpc EXCEPT ![l][i] = "add_locked"]
    /\ running' = TaskProc(l, i)
    /\ UNCHANGED <<rev, queue, temp_queue, is_loading, semVars,
                   loaderVars, tsub, tidx, turls, consumerVars, histVars>>

(* scripts: async with self._temp_queue_lock *)
TaskAddAcquire(l, i) ==
    /\ tpc[l][i] = "add"
    /\ CanRun(TaskProc(l, i))
    /\ temp_queue_lock = NoProc
    /\ temp_queue_lock' = TaskProc(l, i)
    /\ tpc' = [tpc EXCEPT ![l][i] = "add_locked"]
    /\ running' = TaskProc(l, i)
    /\ UNCHANGED <<rev, queue, temp_queue, queue_lock, is_loading, semVars,
                   loaderVars, tsub, tidx, turls, consumerVars, histVars>>

(* scripts: self._temp_queue.add(url) and the end of `async with`; after   *)
(* the last url the task leaves the semaphore and returns True.            *)
TaskAdd(l, i) ==
    /\ tpc[l][i] = "add_locked"
    /\ CanRun(TaskProc(l, i))
    /\ temp_queue' = temp_queue \cup {Head(turls[l][i])}
    /\ temp_queue_lock' = NoProc
    /\ IF Len(turls[l][i]) = 1
       THEN /\ TaskOver(l, i, "done")
            /\ praw_permits' = praw_permits + 1
       ELSE /\ turls' = [turls EXCEPT ![l][i] = Tail(turls[l][i])]
            /\ tpc' = [tpc EXCEPT ![l][i] = "add"]
            /\ running' = TaskProc(l, i)
            /\ UNCHANGED <<praw_permits, tsub, tidx>>
    /\ nadded' = Counted(l)
    /\ UNCHANGED <<rev, queue, queue_lock, is_loading, http_permits,
                   loaderVars, consumerVars, base, returned, last_swap,
                   load_started, envVars>>

(* cache: _downloadImage writes the file when the content type of the     *)
(* response is in _image_formats, and returns without a file when it is   *)
(* not or when an exception was raised (it catches every exception); the   *)
(* file path is added to _temp_queue whatever the outcome; the loop goes   *)
(* on with the next url or the task returns True.                          *)
TaskDownload(l, i) ==
    /\ tpc[l][i] = "download"
    /\ running = NoProc
    /\ \E outcome \in HttpOutcomes :
         LET filepath == ExtractFilenameFromUrl(tidx[l][i], Head(turls[l][i]))
         IN  /\ cache_folder' = IF outcome \in _image_formats[rev]
                                   THEN cache_folder \cup {filepath}
                                   ELSE cache_folder
             /\ temp_queue' = temp_queue \cup {filepath}
    /\ IF Len(turls[l][i]) = 1
       THEN /\ TaskOver(l, i, "done")
            /\ praw_permits' = praw_permits + 1
       ELSE /\ turls' = [turls EXCEPT ![l][i] = Tail(turls[l][i])]
            /\ tidx' = [tidx EXCEPT ![l][i] = tidx[l][i] + 1]
            /\ running' = NoProc
            /\ UNCHANGED <<tpc, tsub, praw_permits>>
    /\ nadded' = Counted(l)
    /\ UNCHANGED <<rev, queue, queue_lock, temp_queue_lock, is_loading,
                   http_permits, loaderVars, consumerVars, base, returned,
                   last_swap, load_started, settingVars, seen_idle, storeVars,
                   callerVars>>

----------------------------------------------------------------------------
(* The consumers: getUrl and getQueueSize (scripts), getPhoto and          *)
(* isQueueEmpty (cache).  None of them suspends, so one call is in         *)
(* progress at a time and concurrent callers run one after the other.      *)

(* getQueueSize / isQueueEmpty called on their own, and the first          *)
(* statement of getUrl: `async with self._queue_lock`.                     *)
SizeBegin(op) ==
    /\ cpc = "idle"
    /\ running = NoProc
    /\ op \in (IF rev = "scripts" THEN {"getUrl", "getQueueSize"}
               ELSE {"isQueueEmpty"})
    /\ (recording /\ op = "getUrl") => Len(returned) < MaxTakes
    /\ queue_lock = NoProc
    /\ queue_lock' = ConsumerProc
    /\ cop' = op
    /\ cpc' = "size_locked"
    /\ running' = ConsumerProc
    /\ UNCHANGED <<rev, queue, temp_queue, temp_queue_lock, is_loading, semVars,
                   loaderVars, taskVars, csize, cres, histVars>>

(* size = self._queue.qsize() / is_empty = self._queue.empty(), and the    *)
(* end of `async with`.                                                    *)
SizeRead ==
    /\ cpc = "size_locked"
    /\ CanRun(ConsumerProc)
    /\ csize' = Len(queue)
    /\ queue_lock' = NoProc
    /\ cpc' = IF cop = "getUrl" THEN "size_read"
              ELSE IF cop = "corgo" THEN "corgo_size"
              ELSE "return"
    /\ running' = ConsumerProc
    /\ UNCHANGED <<rev, queue, temp_queue, temp_queue_lock, is_loading, semVars,
                   loaderVars, taskVars, cop, cres, histVars>>

(* getUrl: if queue_size == 0: raise EmptyQueueException *)
GetUrlCheck ==
    /\ cpc = "size_read"
    /\ CanRun(ConsumerProc)
    /\ IF SizeIsZero(csize)
       THEN /\ cres' = EmptyQueueException
            /\ cpc' = "raise"
       ELSE /\ cpc' = "rotate"
            /\ UNCHANGED cres
    /\ running' = ConsumerProc
    /\ UNCHANGED <<rev, redditVars, semVars, loaderVars, taskVars, cop, csize,
                   histVars>>

(* _rotateQueue / getPhoto: async with self._queue_lock *)
RotateAcquire ==
    /\ \/ cpc = "rotate"
       \/ /\ rev = "cache"
          /\ cpc = "idle"
          /\ recording => Len(returned) < MaxTakes
    /\ CanRun(ConsumerProc)
    /\ queue_lock = NoProc
    /\ queue_lock' = ConsumerProc
    /\ cop' = IF rev = "cache" THEN "getPhoto" ELSE cop
    /\ cpc' = "rot_locked"
    /\ running' = ConsumerProc
    /\ UNCHANGED <<rev, queue, temp_queue, temp_queue_lock, is_loading, semVars,
                   loaderVars, taskVars, csize, cres, histVars>>

(* What take-next finds under the lock.  getPhoto raises on an empty       *)
(* queue and `async with` releases the lock; _rotateQueue calls the        *)
(* blocking Queue.get(), which never returns on an empty queue and stops   *)
(* the event loop.  Otherwise the head is taken and put back at the tail.  *)
RotateQueue ==
    /\ cpc = "rot_locked"
    /\ CanRun(ConsumerProc)
    /\ IF queue = <<>>
       THEN IF rev = "cache"
            THEN /\ cres' = EmptyQueueException
                 /\ queue_lock' = NoProc
                 /\ cpc' = "raise"
                 /\ UNCHANGED <<queue, returned>>
            ELSE /\ cpc' = "blocked"
                 /\ UNCHANGED <<queue, queue_lock, cres, returned>>
       ELSE /\ queue' = Rotated(queue)
            /\ cres' = Head(queue)
            /\ returned' = IF recording THEN Append(returned, Head(queue))
                           ELSE returned
            /\ cpc' = "rotated"
            /\ UNCHANGED queue_lock
    /\ running' = ConsumerProc
    /\ UNCHANGED <<rev, temp_queue, temp_queue_lock, is_loading, semVars,
                   loaderVars, taskVars, cop, csize, base, last_swap,
                   load_started, nadded, envVars>>

(* The end of `async with`; the url is about to be returned. *)
RotateRelease ==
    /\ cpc = "rotated"
    /\ CanRun(ConsumerProc)
    /\ queue_lock' = NoProc
    /\ cpc' = "return"
    /\ running' = ConsumerProc
    /\ UNCHANGED <<rev, queue, temp_queue, temp_queue_lock, is_loading, semVars,
                   loaderVars, taskVars, cop, csize, cres, histVars>>

(* The call returns or raises to its caller; its locals are gone. *)
ConsumerEnd ==
    /\ cpc \in {"return", "raise"}
    /\ CanRun(ConsumerProc)
    /\ cpc' = "idle"
    /\ cop' = "none"
    /\ csize' = -1
    /\ cres' = NoResult
    /\ running' = NoProc
    /\ UNCHANGED <<rev, redditVars, semVars, loaderVars, taskVars, histVars>>

(* scripts, getTempQueueSize: await self._temp_queue_lock.acquire() *)
TempSizeAcquire ==
    /\ cpc = "idle"
    /\ running = NoProc
    /\ rev = "scripts"
    /\ temp_queue_lock = NoProc
    /\ temp_queue_lock' = ConsumerProc
    /\ cop' = "getTempQueueSize"
    /\ cpc' = "temp_locked"
    /\ running' = ConsumerProc
    /\ UNCHANGED <<rev, queue, temp_queue, queue_lock, is_loading, semVars,
                   loaderVars, taskVars, csize, cres, histVars>>

(* size = len(self._temp_queue); self._temp_queue_lock.release() *)
TempSizeRead ==
    /\ cpc = "temp_locked"
    /\ CanRun(ConsumerProc)
    /\ csize' = Cardinality(temp_queue)
    /\ temp_queue_lock' = NoProc
    /\ cpc' = "return"
    /\ running' = ConsumerProc
    /\ UNCHANGED <<rev, queue, temp_queue, queue_lock, is_loading, semVars,
                   loaderVars, taskVars, cop, cres, histVars>>

(* list.remove(url) of a list: without the first occurrence of url. *)
RemoveFirst(q, url) ==
    IF url \notin Range(q) THEN q
    ELSE LET j == CHOOSE j \in 1..Len(q) :
                      q[j] = url /\ \A h \in 1..(j - 1) : q[h] # url
         IN  [h \in 1..(Len(q) - 1) |-> IF h < j THEN q[h] ELSE q[h + 1]]

(* len(self._queue) of a queue.Queue, which has no __len__. *)
LenOfQueue == "TypeError: object of type 'Queue' has no len()"

(* removeUrl(url): under `async with self._queue_lock` the first statement *)
(* is `temp_queue = Queue(len(self._queue))`; it raises, nothing after it  *)
(* runs, and `async with` releases the lock.                               *)
RemoveUrl(url) ==
    /\ cpc = "idle"
    /\ running = NoProc
    /\ rev = "scripts"
    /\ queue_lock = NoProc
    /\ cop' = "removeUrl"
    /\ cres' = LenOfQueue
    /\ cpc' = "raise"
    /\ running' = ConsumerProc
    /\ UNCHANGED <<rev, redditVars, semVars, loaderVars, taskVars, csize,
                   histVars>>

----------------------------------------------------------------------------
(* Telegram: the load jobs of the job queue and the /corgo handler *)

WaitMessage == "The bot is currently out of corgos"
WaitMessageAndJob == "The bot is currently out of corgos, load_posts scheduled"
AttributeError == "AttributeError"

(* The slot that a new job of the job queue takes. *)
JobSlot(l) ==
    /\ l \in slots
    /\ lpc[l] = "idle"
    /\ TasksQuiet(l)
    /\ l = "L2" => ~(lpc["L1"] = "idle" /\ TasksQuiet("L1"))

(* The job queue runs a _loadPosts job, which suspends in _getAdmins and   *)
(* in the messages it sends to the admins.                                 *)
JobStart(l) ==
    /\ lpc[l] = "scheduled"
    /\ running = NoProc
    /\ lpc' = [lpc EXCEPT ![l] = "notifying"]
    /\ UNCHANGED <<rev, redditVars, semVars, running, nposts, loaded, lret,
                   taskVars, consumerVars, histVars>>

(* _loadPosts has sent its messages and calls loadPostsAsync. *)
JobLoad(l) == lpc[l] = "notifying" /\ LoadCall(l)

(* _botCorgoCommand, after the chat action and the test of the banned      *)
(* chats: getQueueSize() / isQueueEmpty() enters                           *)
(* `async with self._queue_lock`.                                          *)
CorgoBegin ==
    /\ cpc = "idle"
    /\ running = NoProc
    /\ queue_lock = NoProc
    /\ queue_lock' = ConsumerProc
    /\ cop' = "corgo"
    /\ cpc' = "size_locked"
    /\ running' = ConsumerProc
    /\ UNCHANGED <<rev, queue, temp_queue, temp_queue_lock, is_loading, semVars,
                   loaderVars, taskVars, csize, cres, histVars>>

(* The queue is empty: the handler sends the wait message and suspends in  *)
(* send_message.  Nothing else has run since getQueueSize() returned, so   *)
(* the load jobs are as they were when the handler saw the empty queue.    *)
CorgoWait ==
    /\ cpc = "corgo_size"
    /\ CanRun(ConsumerProc)
    /\ SizeIsZero(csize)
    /\ cres' = WaitMessage
    /\ cpc' = "wait_sent"
    /\ running' = NoProc
    /\ seen_idle' = \A l \in Loaders : lpc[l] = "idle"
    /\ UNCHANGED <<rev, redditVars, semVars, loaderVars, taskVars, cop, csize,
                   base, returned, last_swap, load_started, nadded,
                   settingVars, storeVars, callerVars, cache_folder>>

(* Variant with a slip: the job is added whatever is_loading says. *)
CorgoSchedule_Always ==
    /\ cpc = "wait_sent"
    /\ running = NoProc
    /\ \E l \in Loaders :
          /\ JobSlot(l)
          /\ lpc' = [lpc EXCEPT ![l] = "scheduled"]
          /\ cres' = WaitMessageAndJob
    /\ cpc' = "return"
    /\ running' = ConsumerProc
    /\ UNCHANGED <<rev, redditVars, semVars, nposts, loaded, lret, taskVars,
                   cop, csize, histVars>>

(* send_message returns: `if not self._reddit.is_loading` adds a           *)
(* _loadPosts job to the job queue with run_once, and the handler returns. *)
CorgoSchedule ==
    /\ cpc = "wait_sent"
    /\ running = NoProc
    /\ IF ~is_loading
       THEN \E l \in Loaders :
              /\ JobSlot(l)
              /\ lpc' = [lpc EXCEPT ![l] = "scheduled"]
              /\ cres' = WaitMessageAndJob
       ELSE UNCHANGED <<lpc, cres>>
    /\ cpc' = "return"
    /\ running' = ConsumerProc
    /\ UNCHANGED <<rev, redditVars, semVars, nposts, loaded, lret, taskVars,
                   cop, csize, histVars>>

(* The queue is not empty: the handler calls self._reddit.getUrl().  The   *)
(* Reddit class of the cache revision has no getUrl (it has getPhoto), so  *)
(* the call raises AttributeError there; in the scripts revision getUrl    *)
(* starts with getQueueSize().                                             *)
CorgoServe ==
    /\ cpc = "corgo_size"
    /\ CanRun(ConsumerProc)
    /\ ~SizeIsZero(csize)
    /\ IF rev = "scripts"
       THEN /\ queue_lock = NoProc
            /\ queue_lock' = ConsumerProc
            /\ cop' = "getUrl"
            /\ cpc' = "size_locked"
            /\ csize' = -1
            /\ UNCHANGED cres
       ELSE /\ cres' = AttributeError
            /\ cpc' = "raise"
            /\ UNCHANGED <<queue_lock, cop, csize>>
    /\ running' = ConsumerProc
    /\ UNCHANGED <<rev, queue, temp_queue, temp_queue_lock, is_loading, semVars,
                   loaderVars, taskVars, histVars>>

----------------------------------------------------------------------------
(* Settings.  A call that finds _data_lock free takes it without           *)
(* suspending; the only suspensions with the lock held are the file        *)
(* operations of aiofiles.                                                 *)

botVars == <<rev, running, redditVars, semVars, loaderVars, taskVars, consumerVars,
             base, returned, last_swap, load_started, nadded, settingVars,
             seen_idle, cache_folder>>

(* Variant with a slip: the call does not wait for the lock. *)
Starts_IgnoresLock(c, call) ==
    /\ spc[c] = "idle"
    /\ sleft[c] > 0
    /\ sref[c] # NoInstance
    /\ call \in menu
    /\ scall' = [scall EXCEPT ![c] = call]
    /\ sleft' = [sleft EXCEPT ![c] = @ - 1]

(* Caller c starts call on the object it holds, whose lock is free. *)
Starts(c, call) ==
    /\ spc[c] = "idle"
    /\ sleft[c] > 0
    /\ sref[c] # NoInstance
    /\ call \in menu
    /\ _data_lock[sref[c]] = NoCaller
    /\ scall' = [scall EXCEPT ![c] = call]
    /\ sleft' = [sleft EXCEPT ![c] = @ - 1]

(* The call raises or returns r without a suspension: the lock is free     *)
(* again when anybody else runs.                                           *)
Ends(c, r) ==
    /\ sret' = [sret EXCEPT ![c] = r]
    /\ spc' = [spc EXCEPT ![c] = "idle"]

(* Variant with a slip: the lock stays with the caller that failed. *)
KeyMissing_KeepsLock(c) ==
    /\ Ends(c, Raised("KeyError"))
    /\ _data_lock' = [_data_lock EXCEPT ![sref[c]] = c]
    /\ UNCHANGED _settings

(* `if key not in self._settings: raise KeyError(...)` inside              *)
(* `async with self._data_lock`.                                           *)
KeyMissing(c) ==
    /\ Ends(c, Raised("KeyError"))
    /\ UNCHANGED <<_settings, _data_lock>>

(* The call goes on to _saveNoLock with the lock held. *)
GoesToSave(c) ==
    /\ _data_lock' = [_data_lock EXCEPT ![sref[c]] = c]
    /\ spc' = [spc EXCEPT ![c] = "save_open"]
    /\ sret' = [sret EXCEPT ![c] = NoValue]

(* SingletonMeta.__call__: Settings(path) or Settings(settings_path=path). *)
(* A path given positionally is moved to the keyword first, so both forms  *)
(* look the same key up.                                                   *)
Construct(c) ==
    \E call \in menu :
        /\ call.op = "construct"
        /\ spc[c] = "idle"
        /\ sleft[c] > 0
        /\ LET key_tuple == KeyTuple(rev, call.key)
           IN  IF InInstances(_instances, key_tuple)
               THEN /\ sref' = [sref EXCEPT ![c] = _instances[key_tuple]]
                    /\ UNCHANGED <<_instances, _path>>
               ELSE \E instance \in Instances :
                      /\ _path[instance] = NoPath
                      /\ \A i \in 1..(instance - 1) : _path[i] # NoPath
                      /\ _path' = [_path EXCEPT ![instance] = call.key]
                      /\ _instances' =
                            [_instances EXCEPT ![key_tuple] = instance]
                      /\ sref' = [sref EXCEPT ![c] = instance]
        /\ sarg' = [sarg EXCEPT ![c] = call.key]
        /\ scall' = [scall EXCEPT ![c] = call]
        /\ sleft' = [sleft EXCEPT ![c] = @ - 1]
        /\ UNCHANGED <<botVars, _settings, _data_lock, file, spc, sret, menu>>

(* Settings.get, with the deserializer `lambda x: tuple(x)` when how says  *)
(* so.                                                                     *)
Get(c) ==
    \E call \in menu :
        /\ call.op = "get"
        /\ Starts(c, call)
        /\ LET settings == _settings[sref[c]]
           IN  IF call.key \notin DOMAIN settings
               THEN Ends(c, Raised("KeyError"))
               ELSE IF call.how = "tuple"
                    THEN Ends(c, PyTuple(settings[call.key].items))
                    ELSE Ends(c, settings[call.key])
        /\ UNCHANGED <<botVars, storeVars, sref, sarg, menu>>

(* Settings.set up to `await self._saveNoLock()`. *)
Set(c) ==
    \E call \in menu :
        /\ call.op = "set"
        /\ Starts(c, call)
        /\ LET settings == _settings[sref[c]]
               value == IF call.how = "str" THEN Str(call.value)
                        ELSE call.value
           IN  IF call.key \notin DOMAIN settings
               THEN KeyMissing(c)
               ELSE /\ _settings' = [_settings EXCEPT
                                        ![sref[c]][call.key] = value]
                    /\ GoesToSave(c)
        /\ UNCHANGED <<botVars, _instances, _path, file, sref, sarg, menu>>

(* Settings.apply up to `await self._saveNoLock()`.  A function that       *)
(* raises does so before it changes its argument.                          *)
Apply(c) ==
    \E call \in menu :
        /\ call.op = "apply"
        /\ Starts(c, call)
        /\ LET settings == _settings[sref[c]]
           IN  IF call.key \notin DOMAIN settings
               THEN KeyMissing(c)
               ELSE IF FuncRaises(call.how, settings[call.key])
                    THEN /\ Ends(c, IF call.how = "pop"
                                       /\ settings[call.key].kind = "list"
                                    THEN Raised("IndexError")
                                    ELSE Raised("TypeError"))
                         /\ UNCHANGED <<_settings, _data_lock>>
                    ELSE /\ _settings' =
                               [_settings EXCEPT ![sref[c]][call.key] =
                                   Func(call.how, settings[call.key])]
                         /\ GoesToSave(c)
        /\ UNCHANGED <<botVars, _instances, _path, file, sref, sarg, menu>>

(* Settings.save up to `await self._saveNoLock()`. *)
Save(c) ==
    \E call \in menu :
        /\ call.op = "save"
        /\ Starts(c, call)
        /\ GoesToSave(c)
        /\ UNCHANGED <<botVars, _instances, _path, _settings, file, sref, sarg,
                       menu>>

(* _botUnbanCommand for an admin: get("telegram_banned") returns the list  *)
(* that _settings holds, banned.remove(int(arg)) changes that list for     *)
(* each argument and raises ValueError for one that is not in it, then    *)
(* set("telegram_banned", sorted(set(banned))).  call.value.items are the  *)
(* arguments.                                                              *)
RECURSIVE RemoveArgs(_, _)
RemoveArgs(banned, args) ==
    IF Len(args) = 0 \/ args[1] \notin Range(banned) THEN banned
    ELSE RemoveArgs(ListRemove(banned, args[1]), Tail(args))

RECURSIVE AllRemoved(_, _)
AllRemoved(banned, args) ==
    \/ Len(args) = 0
    \/ /\ args[1] \in Range(banned)
       /\ AllRemoved(ListRemove(banned, args[1]), Tail(args))

Unban(c) ==
    \E call \in menu :
        /\ call.op = "unban"
        /\ Starts(c, call)
        /\ LET settings == _settings[sref[c]]
               args == call.value.items
           IN  IF Banned \notin DOMAIN settings
               THEN KeyMissing(c)
               ELSE IF settings[Banned].kind # "list"
               THEN /\ Ends(c, Raised("TypeError"))
                    /\ UNCHANGED <<_settings, _data_lock>>
               ELSE LET banned == settings[Banned].items
                    IN  IF AllRemoved(banned, args)
                        THEN /\ _settings' =
                                   [_settings EXCEPT ![sref[c]][Banned] =
                                       PyList(SortedSet(
                                           RemoveArgs(banned, args)))]
                             /\ GoesToSave(c)
                        ELSE /\ _settings' =
                                   [_settings EXCEPT ![sref[c]][Banned] =
                                       PyList(RemoveArgs(banned, args))]
                             /\ Ends(c, Raised("ValueError"))
                             /\ UNCHANGED _data_lock
        /\ UNCHANGED <<botVars, _instances, _path, file, sref, sarg, menu>>

(* _saveNoLock: aiofiles.open(path, "w") truncates the file, or fails and  *)
(* leaves it as it was; the exception leaves `async with self._data_lock`. *)
SaveOpen(c) ==
    /\ spc[c] = "save_open"
    /\ \/ /\ file' = [file EXCEPT ![_path[sref[c]]] = Truncated]
          /\ spc' = [spc EXCEPT ![c] = "save_write"]
          /\ UNCHANGED <<_data_lock, sret>>
       \/ /\ Ends(c, Raised("OSError"))
          /\ _data_lock' = [_data_lock EXCEPT ![sref[c]] = NoCaller]
          /\ UNCHANGED file
    /\ UNCHANGED <<botVars, _instances, _path, _settings, sref, scall, sleft,
                   sarg, menu>>

(* _saveNoLock: ujson.dumps of _settings is written and the file closed,   *)
(* or the write fails; either way the lock is released.  apply returns     *)
(* self._settings[key], set and save return None.                          *)
SaveWrite(c) ==
    /\ spc[c] = "save_write"
    /\ \/ /\ file' = [file EXCEPT ![_path[sref[c]]] =
                                       Document(DumpsAll(_settings[sref[c]]))]
          /\ Ends(c, IF scall[c].op = "apply"
                     THEN _settings[sref[c]][scall[c].key] ELSE NoValue)
       \/ /\ Ends(c, Raised("OSError"))
          /\ UNCHANGED file
    /\ _data_lock' = [_data_lock EXCEPT ![sref[c]] = NoCaller]
    /\ UNCHANGED <<botVars, _instances, _path, _settings, sref, scall, sleft,
                   sarg, menu>>

(* Settings.load up to the read of the file: the lock is taken with        *)
(* acquire().                                                              *)
SettingsLoad(c) ==
    \E call \in menu :
        /\ call.op = "load"
        /\ Starts(c, call)
        /\ _data_lock' = [_data_lock EXCEPT ![sref[c]] = c]
        /\ spc' = [spc EXCEPT ![c] = "load_read"]
        /\ sret' = [sret EXCEPT ![c] = NoValue]
        /\ UNCHANGED <<botVars, _instances, _path, _settings, file, sref, sarg,
                       menu>>

(* Settings.load: ujson.loads of the content replaces _settings and        *)
(* release() frees the lock; on a file without a document ujson.loads      *)
(* raises and release() is never reached.                                  *)
SettingsLoadRead(c) ==
    /\ spc[c] = "load_read"
    /\ IF file[_path[sref[c]]].ok
       THEN /\ _settings' = [_settings EXCEPT
                                ![sref[c]] = LoadsAll(file[_path[sref[c]]].doc)]
            /\ _data_lock' = [_data_lock EXCEPT ![sref[c]] = NoCaller]
            /\ Ends(c, NoValue)
       ELSE /\ Ends(c, Raised("ValueError"))
            /\ UNCHANGED <<_settings, _data_lock>>
    /\ UNCHANGED <<botVars, _instances, _path, file, sref, scall, sleft, sarg,
                   menu>>

----------------------------------------------------------------------------
(* The retrying revision: corgos-telegram-bot.py and reddit.py, where the  *)
(* queue is a list and getImage is not a coroutine *)

RetryLater == "The bot is fetching some new corgos"
PhotoSent == "photo sent"

(* The urls a load may find, and those that Telegram does not accept as a  *)
(* photo: send_photo raises for them every time.                           *)
LegacyUrls == {UrlA, UrlA2, UrlG1, UrlG2}
Unsendable(url) == url \in {UrlG1, UrlG2}

(* A /corgo request of a chat that is not banned, up to `while True`. *)
RetryBegin ==
    /\ cpc = "idle"
    /\ cop' = "corgo_retry"
    /\ cpc' = "get"
    /\ UNCHANGED <<rev, running, redditVars, semVars, loaderVars, taskVars,
                   csize, cres, histVars>>

(* url = self._reddit.getImage(): EmptyQueueException on an empty list,    *)
(* which the handler answers with the retry-later message before it        *)
(* returns; otherwise the head, which goes to the tail.  The local `url`   *)
(* is kept as the one element of `returned`.                               *)
RetryGetImage ==
    /\ cop = "corgo_retry"
    /\ cpc = "get"
    /\ IF queue = <<>>
       THEN /\ cres' = RetryLater
            /\ cpc' = "return"
            /\ UNCHANGED <<queue, returned>>
       ELSE /\ returned' = <<Head(queue)>>
            /\ queue' = Rotated(queue)
            /\ cpc' = "send"
            /\ UNCHANGED cres
    /\ UNCHANGED <<rev, running, temp_queue, queue_lock, temp_queue_lock,
                   is_loading, semVars, loaderVars, taskVars, cop, csize,
                   base, last_swap, load_started, nadded, envVars>>

(* await context.bot.send_photo(...): `break` when it returns; when it     *)
(* raises, sleep(0.5) and the next turn of `while True`.                   *)
RetrySend ==
    /\ cop = "corgo_retry"
    /\ cpc = "send"
    /\ IF Unsendable(returned[1])
       THEN cpc' = "get" /\ UNCHANGED cres
       ELSE cpc' = "return" /\ cres' = PhotoSent
    /\ UNCHANGED <<rev, running, redditVars, semVars, loaderVars, taskVars, cop,
                   csize, histVars>>

(* loadPostsAsync of reddit.py ends: self._queue = self._new_queue.copy(), *)
(* the shuffled urls that the pass accepted.  It runs when no handler runs *)
(* or while the handler is suspended in send_photo: getImage and sleep do  *)
(* not give the event loop back.                                           *)
RetryLoad ==
    /\ cpc \in {"idle", "send"}
    /\ \E S \in SUBSET LegacyUrls : \E q \in Shuffles(S) :
          /\ q # queue
          /\ queue' = q
    /\ UNCHANGED <<rev, running, temp_queue, queue_lock, temp_queue_lock,
                   is_loading, semVars, loaderVars, taskVars, consumerVars,
                   histVars>>

----------------------------------------------------------------------------
(* _botCorgoCommand once getUrl has returned a url *)

(* The Settings calls of the handler are those of caller Handler. *)
Handler == "S1"
TelegramError == "TelegramError"

(* `await self._settings.apply("telegram_corgos_sent", lambda x: x + 1)`:  *)
(* the counter is raised before anything is sent.                          *)
CorgoCount ==
    /\ cpc = "return"
    /\ cop = "getUrl"
    /\ CanRun(ConsumerProc)
    /\ sret[Handler] = NoValue
    /\ Apply(Handler)

(* apply has returned or raised.  What it raised leaves the handler; else  *)
(* `await context.bot.send_photo(...)` sends the photo, or raises when     *)
(* Telegram refuses the url or cannot be reached.                          *)
CorgoSend ==
    /\ cpc = "return"
    /\ cop = "getUrl"
    /\ CanRun(ConsumerProc)
    /\ spc[Handler] = "idle"
    /\ sret[Handler] # NoValue
    /\ IF sret[Handler].kind = "OSError"
       THEN /\ cres' = sret[Handler].kind
            /\ cop' = "corgo"
            /\ cpc' = "raise"
       ELSE /\ cop' = "send_photo"
            /\ \/ cpc' = "return" /\ UNCHANGED cres
               \/ cpc' = "raise" /\ cres' = TelegramError
    /\ sret' = [sret EXCEPT ![Handler] = NoValue]
    /\ running' = ConsumerProc
    /\ UNCHANGED <<rev, redditVars, semVars, loaderVars, taskVars, csize,
                   base, returned, last_swap, load_started, nadded, settingVars,
                   seen_idle, storeVars, spc, sref, scall, sleft, sarg, menu,
                   cache_folder>>

----------------------------------------------------------------------------
Next ==
    \/ \E l \in Loaders :
         \/ LoadBegin(l) \/ LoadReset(l) \/ ListPosts(l) \/ ListFail(l)
         \/ GatherDone(l) \/ GatherRaise(l) \/ CleanupCache(l)
         \/ ShuffleLoaded(l) \/ SwapAcquireQueue(l) \/ SwapAcquireTemp(l)
         \/ SwapInstall(l) \/ SwapReleaseTemp(l) \/ DrainQueue(l)
         \/ FillQueue(l) \/ SwapReleaseQueue(l) \/ ClearLoading(l)
         \/ LoadReturn(l) \/ LoadEnd(l)
    \/ \E l \in Loaders, i \in Posts :
         \/ TaskStart(l, i) \/ TaskLoad(l, i) \/ TaskLoadFail(l, i)
         \/ TaskHttpAcquire(l, i) \/ TaskHttpResponse(l, i)
         \/ TaskAddAcquire(l, i) \/ TaskAdd(l, i) \/ TaskDownload(l, i)
    \/ \E op \in {"getUrl", "getQueueSize", "isQueueEmpty"} : SizeBegin(op)
    \/ SizeRead \/ GetUrlCheck \/ RotateAcquire \/ RotateQueue \/ RotateRelease
    \/ ConsumerEnd

Spec == Init /\ [][Next]_vars

SpecOverlap == InitOverlap /\ [][Next]_vars

(* The settings let more tasks into _scrapePost than fetches on the net:   *)
(* reddit_praw_concurrent_requests is above reddit_http_concurrent_requests. *)
InitWide ==
    /\ InitRedditWith(PrawLimit + HttpLimit, NoJobs)
    /\ feed = SubIds
    /\ posts_limit = MaxPosts
    /\ slots = {"L1"}
    /\ recording = FALSE

SpecWide == InitWide /\ [][Next]_vars

(* The bot after Telegram.start: the job queue holds the _loadPosts job of *)
(* the startup, and the only other source of load jobs is /corgo.          *)
InitCorgo ==
    /\ InitRedditWith(PrawLimit,
                      [l \in Loaders |-> IF l = "L1" THEN "scheduled" ELSE "idle"])
    /\ feed = {1, 2}
    /\ posts_limit = MaxOverlapPosts
    /\ slots = Loaders
    /\ recording = FALSE

NextCorgo ==
    \/ \E l \in Loaders :
         \/ JobStart(l) \/ JobLoad(l) \/ LoadReset(l) \/ ListPosts(l)
         \/ ListFail(l) \/ GatherDone(l) \/ GatherRaise(l) \/ CleanupCache(l)
         \/ ShuffleLoaded(l) \/ SwapAcquireQueue(l) \/ SwapAcquireTemp(l)
         \/ SwapInstall(l) \/ SwapReleaseTemp(l) \/ DrainQueue(l)
         \/ FillQueue(l) \/ SwapReleaseQueue(l) \/ ClearLoading(l)
         \/ LoadReturn(l) \/ LoadEnd(l)
    \/ \E l \in Loaders, i \in Posts :
         \/ TaskStart(l, i) \/ TaskLoad(l, i) \/ TaskLoadFail(l, i)
         \/ TaskHttpAcquire(l, i) \/ TaskHttpResponse(l, i)
         \/ TaskAddAcquire(l, i) \/ TaskAdd(l, i) \/ TaskDownload(l, i)
    \/ CorgoBegin \/ SizeRead \/ CorgoWait \/ CorgoSchedule \/ CorgoServe
    \/ GetUrlCheck \/ RotateAcquire \/ RotateQueue \/ RotateRelease
    \/ ConsumerEnd

SpecCorgo == InitCorgo /\ [][NextCorgo]_vars

(* One pass of loadPostsAsync on a new Reddit object, over every candidate *)
(* of the validator.                                                       *)
InitValidator ==
    /\ InitReddit
    /\ feed = CandidateIds
    /\ posts_limit = MaxValidatorPosts
    /\ slots = {"L1"}
    /\ recording = FALSE

FirstLoad(l) == ~load_started /\ LoadBegin(l)

NextValidator ==
    \/ \E l \in Loaders :
         \/ FirstLoad(l) \/ LoadReset(l) \/ ListPosts(l) \/ ListFail(l)
         \/ GatherDone(l) \/ GatherRaise(l) \/ CleanupCache(l)
         \/ ShuffleLoaded(l) \/ SwapAcquireQueue(l) \/ SwapAcquireTemp(l)
         \/ SwapInstall(l) \/ SwapReleaseTemp(l) \/ DrainQueue(l)
         \/ FillQueue(l) \/ SwapReleaseQueue(l) \/ ClearLoading(l)
         \/ LoadReturn(l) \/ LoadEnd(l)
    \/ \E l \in Loaders, i \in Posts :
         \/ TaskStart(l, i) \/ TaskLoad(l, i) \/ TaskLoadFail(l, i)
         \/ TaskHttpAcquire(l, i) \/ TaskHttpResponse(l, i)
         \/ TaskAddAcquire(l, i) \/ TaskAdd(l, i) \/ TaskDownload(l, i)

SpecValidator == InitValidator /\ [][NextValidator]_vars

(* Calls on a loaded Settings object by two callers: every operation, on   *)
(* keys the file has and on one it has not, with values of each type, and  *)
(* /unban with a chat that is banned and one that is not.                  *)
MaxCalls == 2

SettingsMenu ==
    {Call("get", Banned, NoValue, "-"),
     Call("get", Counter, NoValue, "tuple"),
     Call("get", Missing, NoValue, "-"),
     Call("set", Banned, PyList(<<2, 1>>), "-"),
     Call("set", Counter, PyInt(7), "str"),
     Call("set", Counter, PyTuple(<<3>>), "-"),
     Call("set", Missing, PyInt(1), "-"),
     Call("apply", Counter, NoValue, "inc"),
     Call("apply", Banned, NoValue, "pop"),
     Call("apply", Missing, NoValue, "inc"),
     Call("save", "-", NoValue, "-"),
     Call("load", "-", NoValue, "-"),
     Call("unban", Banned, PyList(<<1, 2>>), "-")}

InitStore ==
    /\ InitQueue(PrawLimit, NoJobs)
    /\ feed = {}
    /\ posts_limit = 0
    /\ slots = {}
    /\ recording = FALSE

InitSettingsCalls ==
    /\ InitStore
    /\ rev = "cache"
    /\ InitSettings({"S1", "S2"}, MaxCalls, SettingsMenu)

SettingsStep(c) ==
    \/ Get(c)
    \/ Set(c)
    \/ Apply(c)
    \/ Save(c)
    \/ Unban(c)
    \/ SaveOpen(c)
    \/ SaveWrite(c)
    \/ SettingsLoad(c)
    \/ SettingsLoadRead(c)

NextSettings == \E c \in Callers : SettingsStep(c)

SpecSettings == InitSettingsCalls /\ [][NextSettings]_vars

(* Every caller calls apply(telegram_corgos_sent, lambda x: x + 1), as the *)
(* /corgo handler does for each request, ApplyCalls times.                 *)
ApplyCalls == MaxCalls - 1

InitApply ==
    /\ InitStore
    /\ InitSettings(Callers, ApplyCalls,
                    {Call("apply", Counter, NoValue, "inc")})

NextApply == \E c \in Callers : Apply(c) \/ SaveOpen(c) \/ SaveWrite(c)

SpecApply == InitApply /\ [][NextApply]_vars

(* The bot as in InitCorgo, its /corgo handler followed to its end: the    *)
(* handler may count ApplyCalls photos, and requests come while it may.    *)
InitPhoto ==
    /\ InitQueue(PrawLimit,
                 [l \in Loaders |-> IF l = "L1" THEN "scheduled" ELSE "idle"])
    /\ InitSettings({Handler}, ApplyCalls,
                    {Call("apply", Counter, NoValue, "inc")})
    /\ feed = {1, 2}
    /\ posts_limit = MaxOverlapPosts
    /\ slots = Loaders
    /\ recording = FALSE

NextPhoto ==
    \/ \E l \in Loaders :
         \/ JobStart(l) \/ JobLoad(l) \/ LoadReset(l) \/ ListPosts(l)
         \/ ListFail(l) \/ GatherDone(l) \/ GatherRaise(l) \/ CleanupCache(l)
         \/ ShuffleLoaded(l) \/ SwapAcquireQueue(l) \/ SwapAcquireTemp(l)
         \/ SwapInstall(l) \/ SwapReleaseTemp(l) \/ DrainQueue(l)
         \/ FillQueue(l) \/ SwapReleaseQueue(l) \/ ClearLoading(l)
         \/ LoadReturn(l) \/ LoadEnd(l)
    \/ \E l \in Loaders, i \in Posts :
         \/ TaskStart(l, i) \/ TaskLoad(l, i) \/ TaskLoadFail(l, i)
         \/ TaskHttpAcquire(l, i) \/ TaskHttpResponse(l, i)
         \/ TaskAddAcquire(l, i) \/ TaskAdd(l, i) \/ TaskDownload(l, i)
    \/ (sleft[Handler] > 0 /\ CorgoBegin)
    \/ SizeRead \/ CorgoWait \/ CorgoSchedule \/ CorgoServe
    \/ GetUrlCheck \/ RotateAcquire \/ RotateQueue \/ RotateRelease
    \/ CorgoCount \/ SaveOpen(Handler) \/ SaveWrite(Handler) \/ CorgoSend
    \/ (~(cpc = "return" /\ cop = "getUrl") /\ ConsumerEnd)

SpecPhoto == InitPhoto /\ [][NextPhoto]_vars

(* The retrying revision: /corgo requests and loads that replace the list. *)
(* The handler is not left waiting forever by the event loop: a step of    *)
(* its loop that can be taken is taken.                                    *)
InitRetry ==
    /\ rev = "legacy"
    /\ queue = <<>>
    /\ temp_queue = {}
    /\ cache_folder = {}
    /\ queue_lock = NoProc
    /\ temp_queue_lock = NoProc
    /\ is_loading = FALSE
    /\ praw_permits = PrawLimit
    /\ http_permits = HttpLimit
    /\ running = NoProc
    /\ lpc = NoJobs
    /\ nposts = [l \in Loaders |-> 0]
    /\ loaded = [l \in Loaders |-> <<>>]
    /\ lret = [l \in Loaders |-> -1]
    /\ tpc = [l \in Loaders |-> [i \in Posts |-> "none"]]
    /\ tsub = [l \in Loaders |-> [i \in Posts |-> 0]]
    /\ tidx = [l \in Loaders |-> [i \in Posts |-> 0]]
    /\ turls = [l \in Loaders |-> [i \in Posts |-> <<>>]]
    /\ cpc = "idle"
    /\ cop = "none"
    /\ csize = -1
    /\ cres = NoResult
    /\ base = <<>>
    /\ returned = <<>>
    /\ last_swap = "none"
    /\ load_started = FALSE
    /\ nadded = [l \in Loaders |-> 0]
    /\ seen_idle = FALSE
    /\ InitSettings({}, 0, {})
    /\ feed = {}
    /\ posts_limit = 0
    /\ slots = {}
    /\ recording = FALSE

NextRetry ==
    \/ RetryBegin \/ RetryGetImage \/ RetrySend \/ RetryLoad \/ ConsumerEnd

SpecRetry ==
    InitRetry /\ [][NextRetry]_vars /\ WF_vars(RetryGetImage \/ RetrySend)

(* removeUrl is called, with a url of the queue or with another one, and   *)
(* getTempQueueSize is called, while loads and the other consumers run.    *)
NextRemove ==
    \/ Next
    \/ \E url \in Range(queue) \cup {UrlGif} : RemoveUrl(url)
    \/ TempSizeAcquire \/ TempSizeRead

SpecRemove == InitOverlap /\ [][NextRemove]_vars

(* No Settings object exists yet: the callers construct theirs, with one  *)
(* path or the other, given positionally or by keyword, then load and use  *)
(* them.                                                                   *)
SingletonMenu ==
    {Call("construct", MainPath, NoValue, "positional"),
     Call("construct", MainPath, NoValue, "keyword"),
     Call("construct", "other.json", NoValue, "positional"),
     Call("load", "-", NoValue, "-"),
     Call("set", Banned, PyList(<<2, 1>>), "-"),
     Call("get", Banned, NoValue, "-")}

InitSingleton ==
    /\ InitStore
    /\ InitFiles
    /\ _instances = [k \in Paths \cup {SettingsCls} |-> NoInstance]
    /\ _path = [i \in Instances |-> NoPath]
    /\ _settings = [i \in Instances |-> EmptyMap]
    /\ _data_lock = [i \in Instances |-> NoCaller]
    /\ spc = [c \in Callers |-> "idle"]
    /\ sref = [c \in Callers |-> NoInstance]
    /\ scall = [c \in Callers |-> NoCall]
    /\ sret = [c \in Callers |-> NoValue]
    /\ sleft = [c \in Callers |-> IF c = "S3" THEN 1 ELSE MaxCalls + 1]
    /\ sarg = [c \in Callers |-> NoPath]
    /\ menu = SingletonMenu

NextSingleton ==
    \E c \in Callers :
        \/ Construct(c)
        \/ SettingsLoad(c)
        \/ SettingsLoadRead(c)
        \/ Set(c)
        \/ Get(c)
        \/ SaveOpen(c)
        \/ SaveWrite(c)

SpecSingleton == InitSingleton /\ [][NextSingleton]_vars

----------------------------------------------------------------------------
(* Properties *)

(* The consumer is about to read the queue under the lock. *)
Observing == cpc \in {"size_locked", "rot_locked"}

TakeNext == cop \in {"getUrl", "getPhoto"}

(* The invocation has set _is_loading and its swap is not complete. *)
BeforeSwapEnd ==
    {"listing", "gather", "cleanup", "shuffle", "swap", "swap_q", "swap_qt",
     "drained"}

(* C1: swap atomicity.  Whatever a consumer reads of the serving queue     *)
(* (the queue it rotates, the size it is told, the url it gets) is read    *)
(* of the complete contents that the last swap installed, up to rotation:  *)
(* never of a drained or half filled queue, never of old items mixed with  *)
(* new ones.                                                               *)
C1_SwapAtomicity ==
    /\ Observing => (queue_lock = ConsumerProc /\ IsRotation(queue, base))
    /\ (cpc \in {"size_read", "return"} /\ csize # -1) => csize = Len(base)
    /\ cpc \in {"rotated", "return"} /\ TakeNext =>
           (cres \in Range(base) /\ IsRotation(queue, base))

C1_Witness ==
    /\ cpc = "rot_locked"
    /\ last_swap = "over items"
    /\ Len(base) = 2

(* C2: take-next raises EmptyQueueException after a swap that began on a   *)
(* queue with items only if that swap installed an empty staging set; a    *)
(* consumer never finds the queue empty while the installed contents are   *)
(* not, so the drained queue of the cache revision is never seen.          *)
C2_NoStarvation ==
    /\ (cpc = "raise" /\ last_swap = "over items") => base = <<>>
    /\ (Observing /\ base # <<>>) => queue # <<>>
    /\ cpc # "blocked"

C2_Witness ==
    /\ rev = "cache"
    /\ cpc = "return"
    /\ cop = "getPhoto"
    /\ cres \in Range(base)
    /\ last_swap = "over items"

(* C3: rotation.  With [x1..xn] installed and no swap since, the k-th      *)
(* take-next call returned x((k-1) mod n)+1, the queue has n items and is  *)
(* the installed sequence rotated by the number of calls; after n calls    *)
(* it is [x1..xn] again.                                                   *)
C3_Rotation ==
    (\A l \in Loaders : lpc[l] # "drained") =>
        /\ Len(queue) = Len(base)
        /\ queue = Rotate(base, Len(returned))
        /\ \A k \in 1..Len(returned) :
               returned[k] = base[((k - 1) % Len(base)) + 1]
        /\ Len(returned) = Len(base) => queue = base

C3_Witness ==
    /\ Len(base) = 2
    /\ Len(returned) = 3
    /\ cpc = "return"

C6_SwapPermutation ==
    \A l \in Loaders : lpc[l] = "installed" =>
        /\ Range(queue) = temp_queue
        /\ Len(queue) = Cardinality(temp_queue)
        /\ NoDuplicates(queue)

C6_Witness ==
    \E l \in Loaders :
        /\ lpc[l] = "installed"
        /\ rev = "scripts"
        /\ last_swap = "over items"
        /\ nadded[l] = 2
        /\ Cardinality(temp_queue) = 1

(* C7: _is_loading is true whenever an invocation of loadPostsAsync has    *)
(* started and has not completed its swap.                                 *)
C7_LoadingWhileRunning ==
    (\E l \in Loaders : lpc[l] \in BeforeSwapEnd) => is_loading

(* C8: _is_loading is false whenever no invocation of loadPostsAsync is    *)
(* executing.                                                              *)
C8_NotLoadingWhenIdle ==
    (\A l \in Loaders : lpc[l] = "idle") => ~is_loading

(* C9: an invocation that fails in the listing has not touched the         *)
(* serving queue: none of its steps, from the call to the propagation of   *)
(* the failure, changes the queue, and the queue lock is free after each   *)
(* of them.                                                                *)
C9_FailurePreservesQueue ==
    [][\A l \in Loaders :
          (/\ lpc'[l] # lpc[l]
           /\ \/ lpc'[l] \in {"reset_locked", "listing", "list_failed"}
              \/ lpc[l] = "list_failed")
              => (queue' = queue /\ queue_lock' = NoProc)]_vars

C9_Witness ==
    \E l \in Loaders :
        /\ lpc[l] = "list_failed"
        /\ queue # <<>>
        /\ queue_lock = NoProc

(* C10: error isolation.  An invocation one of whose tasks raised is       *)
(* still waiting for the other tasks, is swapping or has returned: it      *)
(* never ends with the exception of the task instead of the swap.          *)
C10_ErrorIsolation ==
    \A l \in Loaders :
        (\E i \in Posts : tpc[l][i] = "raised") =>
            lpc[l] \in {"gather", "swap", "swap_q", "swap_qt", "installed",
                        "released_t", "returning", "returned"}

(* C11: only validated urls are staged.  No element of the staging set or  *)
(* of the serving queue is the placeholder None that _scrapeImage returns  *)
(* for a url whose fetch raised or whose content type is not an image.     *)
C11_OnlyValidatedStaged ==
    /\ None \notin temp_queue
    /\ None \notin Range(queue)

(* The task (l, i) of the scripts revision is at position pc, and its      *)
(* submission is known.                                                    *)
ScriptsTaskAt(l, i, pc) ==
    /\ rev = "scripts"
    /\ tpc[l][i] = pc
    /\ tsub[l][i] # 0

(* The candidates that the validator is to reject: pinned, self-text, a    *)
(* score below min_score, or a video marker in the url.                    *)
Rejected(sub) ==
    \/ sub.stickied
    \/ sub.is_self
    \/ sub.score < MinScore
    \/ sub.url.ext \in {".gif", ".gifv"}
    \/ sub.url.host = "v.redd.it"

(* The candidates that the validator is to accept when the url answers     *)
(* with an image type.                                                     *)
Acceptable(sub) ==
    /\ ~sub.stickied
    /\ ~sub.is_self
    /\ ~sub.is_gallery
    /\ sub.score >= MinScore
    /\ sub.url.ext \notin {".gif", ".gifv"}
    /\ sub.url.host # "v.redd.it"

(* C12: validator rejection (scripts revision, which has the three         *)
(* markers; the cache revision looks for v.redd.it only).  The task of a   *)
(* rejected candidate, whatever its other fields, ends in the step that    *)
(* starts it: it adds nothing to the staging set, takes no http permit     *)
(* and never waits in submission.load() or in a fetch.                     *)
C12_ValidatorRejection ==
    [][\A l \in Loaders, i \in Posts :
          /\ (ScriptsTaskAt(l, i, "ready") /\ Rejected(SubOf(l, i))
                  /\ tpc'[l][i] # "ready") =>
                 /\ tpc'[l][i] \in {"done", "none"}
                 /\ temp_queue' = temp_queue
                 /\ nadded' = nadded
                 /\ http_permits' = http_permits
                 /\ praw_permits' = praw_permits
          /\ (rev = "scripts" /\ tsub[l][i] # 0 /\ Rejected(SubOf(l, i))) =>
                 tpc[l][i] = "ready"]_vars

C12_Witness ==
    /\ rev = "scripts"
    /\ lpc["L1"] = "gather"
    /\ nposts["L1"] = 1
    /\ tpc["L1"][1] = "done"
    /\ nadded["L1"] = 0
    /\ temp_queue = {}
    /\ praw_permits = PrawLimit
    /\ http_permits = HttpLimit

(* C13: validator acceptance (scripts revision).  The task of a candidate  *)
(* that is not pinned, not self-text, not a gallery, with a score at or    *)
(* above min_score and no marker goes on to load the submission and to     *)
(* fetch its url; an image content type gives the url of the post, and     *)
(* the task adds the one value it got to the staging set and returns.      *)
C13_ValidatorAcceptance ==
    [][\A l \in Loaders, i \in Posts :
          (rev = "scripts" /\ tsub[l][i] # 0 /\ Acceptable(SubOf(l, i))) =>
             /\ (tpc[l][i] = "ready" /\ tpc'[l][i] # "ready") =>
                    tpc'[l][i] = "loading"
             /\ tpc[l][i] = "fetching" =>
                    \A o \in _image_formats[rev] :
                        ScrapeImage(rev, FetchUrl(l, i), o) = SubOf(l, i).url
             /\ (tpc[l][i] = "fetching" /\ tpc'[l][i] # "fetching") =>
                    /\ tpc'[l][i] = "add"
                    /\ \E o \in HttpOutcomes :
                           turls'[l][i] = <<ScrapeImage(rev, FetchUrl(l, i), o)>>
             /\ (tpc[l][i] = "add_locked" /\ tpc'[l][i] # "add_locked") =>
                    /\ temp_queue' = temp_queue \cup {turls[l][i][1]}
                    /\ Len(turls[l][i]) = 1
                    /\ tpc'[l][i] \in {"done", "none"}]_vars

C13_Witness ==
    \E l \in Loaders, i \in Posts :
        /\ ScriptsTaskAt(l, i, "add_locked")
        /\ Acceptable(SubOf(l, i))
        /\ SubOf(l, i).score = MinScore
        /\ turls[l][i] = <<SubOf(l, i).url>>

(* The urls of the entries of a gallery whose declared format is an        *)
(* allow-listed image type.                                                *)
DeclaredImages(r, meta) ==
    {meta[j].u : j \in {k \in 1..Len(meta) : meta[k].m \in _image_formats[r]}}

(* C14: gallery expansion (scripts revision).  No fetch is issued for an   *)
(* entry whose declared format is an allow-listed image type, and when the *)
(* loop over the entries ends, the url of every such entry is part of the  *)
(* result of _scrapeGallery; the url of another entry is part of it only   *)
(* after a fetch of that url.                                              *)
C14_GalleryExpansion ==
    [][\A l \in Loaders, i \in Posts :
          (rev = "scripts" /\ tsub[l][i] # 0 /\ SubOf(l, i).is_gallery) =>
             LET meta == SubOf(l, i).media_metadata
             IN  /\ tpc[l][i] = "fetching" =>
                        meta[tidx[l][i]].m \notin _image_formats[rev]
                 /\ (tpc[l][i] = "fetching" /\ tpc'[l][i] = "add") =>
                        /\ DeclaredImages(rev, meta) \subseteq Range(turls'[l][i])
                        /\ Range(turls'[l][i]) \subseteq
                               DeclaredImages(rev, meta) \cup
                               Range(turls[l][i]) \cup {FetchUrl(l, i)}
                 /\ (tpc[l][i] \in {"loading", "fetching"}
                         /\ tpc'[l][i] \in {"done", "none"}) =>
                        DeclaredImages(rev, meta) = {}]_vars

(* The tasks that are inside `async with self._praw_requests_semaphore`,   *)
(* suspended or running.                                                   *)
InPrawGate ==
    {t \in Loaders \X Posts :
        tpc[t[1]][t[2]] \in {"loading", "http_wait", "fetching", "add",
                             "add_locked", "download"}}

(* C15: listing-gate bound.  The tasks inside the body of _scrapePost are  *)
(* at most reddit_praw_concurrent_requests, and they are exactly the       *)
(* holders of the permits that are out: a task that left the body, by an   *)
(* early return, by its normal return or by an exception, holds none.      *)
C15_PrawGateBound ==
    /\ praw_permits \in 0..PrawLimit
    /\ Cardinality(InPrawGate) = PrawLimit - praw_permits

C15_Witness ==
    \E l \in Loaders, i, j \in Posts :
        /\ tpc[l][i] = "raised"
        /\ <<l, j>> \in InPrawGate
        /\ praw_permits = 0

(* The tasks of the cache revision that wait in session.get() or in a      *)
(* write of _downloadImage.                                                *)
Downloading ==
    {t \in Loaders \X Posts : rev = "cache" /\ tpc[t[1]][t[2]] = "download"}

(* C16: http-gate bound of the cache revision.  The fetches of             *)
(* _downloadImage in flight are at most reddit_http_concurrent_requests,   *)
(* also when reddit_praw_concurrent_requests is larger.                    *)
C16_HttpGateBound == Cardinality(Downloading) <= HttpLimit

(* The invocation is past gather(): it prepares the swap, swaps or         *)
(* returns.                                                                *)
AfterGather ==
    {"cleanup", "shuffle", "swap", "swap_q", "swap_qt", "installed",
     "released_t", "drained", "released_q", "returning", "returned"}

(* C17: ordering.  From the moment an invocation leaves gather() for its   *)
(* swap, every task it created has returned: none is waiting, fetching or  *)
(* adding to the staging set, during the swap or after it.                 *)
C17_TasksBeforeSwap ==
    \A l \in Loaders :
        lpc[l] \in AfterGather =>
            \A i \in Posts : tpc[l][i] \in {"none", "done"}

C17_Witness ==
    \E l \in Loaders :
        /\ lpc[l] = "swap_q"
        /\ nposts[l] = 2
        /\ tpc[l][1] = "done"
        /\ tpc[l][2] = "done"
        /\ nadded[l] = 2

(* The /corgo handler is at position pc. *)
CorgoAt(pc) == cop = "corgo" /\ cpc = pc

(* The load jobs that execute loadPostsAsync. *)
Executing ==
    {l \in Loaders : lpc[l] \notin {"idle", "scheduled", "notifying"}}

(* C18: a /corgo request that finds the serving queue empty answers with   *)
(* the wait message, then adds one load job when is_loading is false at    *)
(* that moment and none when it is true, and returns: it never calls       *)
(* take-next and leaves the queue as it is.                                *)
C18_CorgoOnEmptyQueue ==
    [][/\ (CorgoAt("corgo_size") /\ csize = 0 /\ cpc' # cpc) =>
              (cpc' = "wait_sent" /\ cres' = WaitMessage /\ lpc' = lpc)
       /\ (CorgoAt("wait_sent") /\ cpc' # cpc) =>
              /\ cpc' = "return"
              /\ queue' = queue
              /\ is_loading => lpc' = lpc
              /\ ~is_loading =>
                     \E l \in Loaders :
                         /\ lpc[l] = "idle"
                         /\ lpc' = [lpc EXCEPT ![l] = "scheduled"]
       /\ (CorgoAt("return") /\ cpc' # cpc) => (cpc' = "idle" /\ lpc' = lpc)
       /\ CorgoAt("return") => cres \in {WaitMessage, WaitMessageAndJob}
      ]_vars

C18_Witness ==
    /\ CorgoAt("return")
    /\ cres = WaitMessage
    /\ is_loading
    /\ \A l \in Loaders : lpc[l] # "scheduled"

(* C19: no duplicate concurrent refreshes.  With the job of the startup    *)
(* and the jobs that /corgo adds as the only load jobs, at most one        *)
(* invocation of loadPostsAsync is executing at any time.                  *)
C19_OneLoadAtATime == Cardinality(Executing) <= 1

(* C20: refresh responsiveness.  A /corgo request that found the queue     *)
(* empty while no load job was pending or executing adds a load job when   *)
(* it comes to its test of is_loading.                                     *)
C20_RefreshResponsive ==
    [][(/\ CorgoAt("wait_sent")
        /\ cpc' = "return"
        /\ seen_idle)
           => \E l \in Loaders : lpc'[l] = "scheduled"]_vars

(* Caller c starts a call in this step. *)
CallStarts(c) == sleft'[c] = sleft[c] - 1

(* C21: get, set and apply on a key that the loaded mapping does not have  *)
(* raise KeyError, leave the mapping in memory and the file as they were  *)
(* (the key is not created) and leave the lock free.                       *)
C21_MissingKey ==
    [][\A c \in Callers :
          (/\ CallStarts(c)
           /\ scall'[c].op \in {"get", "set", "apply"}
           /\ scall'[c].key \notin DOMAIN _settings[sref[c]])
              => /\ sret'[c] = Raised("KeyError")
                 /\ spc'[c] = "idle"
                 /\ _settings' = _settings
                 /\ file' = file
                 /\ _data_lock'[sref[c]] = NoCaller
      ]_vars

(* A caller made all its calls, the last of which raised KeyError, and the*)
(* first call of another caller then took the lock.                        *)
C21_Witness ==
    \E c, d \in Callers :
        /\ sret[c] = Raised("KeyError")
        /\ scall[c].op = "apply"
        /\ sleft[c] = 0
        /\ spc[d] = "save_open"
        /\ sleft[d] = MaxCalls - 1
        /\ _data_lock[sref[d]] = d

(* The call of c is a set or an apply whose _saveNoLock completes in this  *)
(* step, so that the call returns.                                         *)
WriteReturns(c) ==
    /\ spc[c] = "save_write"
    /\ spc'[c] = "idle"
    /\ sret'[c] # Raised("OSError")
    /\ scall[c].op \in {"set", "apply"}

(* What the call of c stored: value or serializer(value) for a set, the    *)
(* result of the function for an apply.                                    *)
Stored(c) ==
    IF scall[c].op = "set"
    THEN IF scall[c].how = "str" THEN Str(scall[c].value) ELSE scall[c].value
    ELSE _settings[sref[c]][scall[c].key]

(* When the call of c returns, a fresh load() of the path followed by      *)
(* get(key) gives what the call stored, and apply returns it; this for the *)
(* stored values with a type in kinds.                                     *)
RoundTrip(c, kinds) ==
    (WriteReturns(c) /\ Stored(c).kind \in kinds)
        => /\ file'[_path[sref[c]]].ok
           /\ LoadsAll(file'[_path[sref[c]]].doc)[scall[c].key] = Stored(c)
           /\ scall[c].op = "apply" => sret'[c] = Stored(c)

(* C22 as stated: the round trip for every value. *)
C22_AsStated ==
    [][\A c \in Callers :
          RoundTrip(c, {"int", "str", "list", "tuple"})]_vars

(* C22: write-through round trip, for the values of the types that         *)
(* _settings is declared to hold (int, str, list): once set(k, v), with or *)
(* without a serializer, or apply(k, f) has returned, a fresh load() of    *)
(* the path followed by get(k) returns v, resp. serializer(v), resp. f of  *)
(* the previous value, and apply returns that value.  No save() is called. *)
C22_RoundTrip ==
    [][\A c \in Callers :
          /\ RoundTrip(c, {"int", "str", "list"})
          /\ (CallStarts(c) /\ scall'[c].op = "apply"
                /\ spc'[c] = "save_open")
                => _settings'[sref[c]][scall'[c].key] =
                      Func(scall'[c].how, _settings[sref[c]][scall'[c].key])
          /\ (spc[c] \in {"save_open", "save_write"})
                => _settings'[sref[c]] = _settings[sref[c]]
      ]_vars

(* A set of a list has returned and a later get of another caller, its     *)
(* last call, returned the list.                                           *)
C22_Witness ==
    \E c, d \in Callers :
        /\ scall[c] = Call("set", Banned, PyList(<<2, 1>>), "-")
        /\ spc[c] = "idle"
        /\ sret[c] = NoValue
        /\ scall[d] = Call("get", Banned, NoValue, "-")
        /\ sret[d] = PyList(<<2, 1>>)
        /\ file[_path[sref[c]]] = Document(DumpsAll(_settings[sref[c]]))

(* C23: durable reads.  After the initial load, whenever the lock of a     *)
(* Settings object is free, the mapping it holds in memory is the one its  *)
(* file holds, so that get returns only values that are in the file.       *)
C23_DurableReads ==
    \A c \in Callers :
        _data_lock[sref[c]] = NoCaller
            => file[_path[sref[c]]] = Document(DumpsAll(_settings[sref[c]]))

(* The callers whose calls have all returned, the last one with a value. *)
Returned == {c \in Callers : sleft[c] = 0 /\ spc[c] = "idle"
                                /\ sret[c].kind = "int"}

(* The number of calls that the callers of S have started. *)
RECURSIVE CallsStarted(_)
CallsStarted(S) ==
    IF S = {} THEN 0
    ELSE LET c == CHOOSE c \in S : TRUE
         IN  (ApplyCalls - sleft[c]) + CallsStarted(S \ {c})

(* C24: no lost update.  The counter in memory is its initial value plus   *)
(* the number of apply(k, x -> x + 1) calls that changed it; when the      *)
(* concurrent calls have all returned, the counter is the initial value    *)
(* plus their number in memory and in the file, and the values returned    *)
(* to different callers are pairwise distinct.                             *)
C24_NoLostUpdate ==
    /\ _settings[MainInstance][Counter] =
          PyInt(InitialSettings[Counter].items[1] + CallsStarted(Callers))
    /\ \A c, d \in Callers :
          (c # d /\ sret[c].kind = "int" /\ sret[d].kind = "int")
              => sret[c] # sret[d]
    /\ Returned = Callers
          => /\ _settings[MainInstance][Counter] =
                   PyInt(InitialSettings[Counter].items[1]
                           + Cardinality(Callers) * ApplyCalls)
             /\ file[MainPath] = Document(DumpsAll(_settings[MainInstance]))

C24_Witness ==
    /\ Returned = Callers
    /\ \E c \in Callers :
          sret[c] = PyInt(InitialSettings[Counter].items[1]
                            + Cardinality(Callers) * ApplyCalls)

(* The callers that hold a Settings object. *)
Constructed == {c \in Callers : sref[c] # NoInstance}

C26_InstancePerPath ==
    \A c, d \in Constructed :
        /\ _path[sref[c]] = sarg[c]
        /\ sarg[c] # sarg[d] => sref[c] # sref[d]

(* C27: remove(url) on the serving queue returns without an error and      *)
(* leaves the queue without the first occurrence of url, the other items   *)
(* in their order; the queue is unchanged when url is not in it.           *)
C27_RemoveUrl ==
    [][(cpc = "idle" /\ cop' = "removeUrl")
          => /\ cpc' = "return"
             /\ \E url \in Range(queue) \cup {UrlGif} :
                    queue' = RemoveFirst(queue, url)
      ]_vars

(* C28: each pass starts from an empty staging set.  In the cache          *)
(* revision the queue that a swap has installed holds only items that the  *)
(* tasks of that pass staged: it has no more items than they staged.       *)
C28_FreshStagingSet ==
    \A l \in Loaders :
        (rev = "cache" /\ lpc[l] = "installed")
            => Len(queue) <= nadded[l]

(* C29: staging-set ownership under overlapping runs.  In the scripts      *)
(* revision what the swap of an invocation has installed is what the       *)
(* tasks of that invocation staged: no more items than they staged, and    *)
(* some item when they staged any.                                         *)
C29_StagingOwnership ==
    \A l \in Loaders :
        (rev = "scripts" /\ lpc[l] = "installed")
            => /\ Len(queue) <= nadded[l]
               /\ nadded[l] > 0 => Len(queue) > 0

(* Positions of an invocation from its call to the point where it is about *)
(* to take the queue lock for its swap.                                    *)
BeforeSwap == {"reset_locked", "listing", "gather", "cleanup", "shuffle",
               "swap"}

(* C30: no interference before the swap.  From its start until its swap an *)
(* invocation of loadPostsAsync does not hold the queue lock and none of   *)
(* its steps changes the queue or the queue lock; its tasks never hold the *)
(* queue lock and none of their steps changes the queue or the queue lock. *)
(* So a take-next call finds the lock free and the old queue at any such   *)
(* time.                                                                   *)
C30_NoInterference ==
    [][\A l \in Loaders :
          /\ lpc[l] \in BeforeSwap => queue_lock # LoaderProc(l)
          /\ \A i \in Posts : queue_lock # TaskProc(l, i)
          /\ (lpc[l] \in BeforeSwap /\ lpc'[l] \in BeforeSwap
                /\ lpc'[l] # lpc[l])
                => (queue' = queue /\ queue_lock' = queue_lock)
          /\ (tpc'[l] # tpc[l] \/ turls'[l] # turls[l] \/ tidx'[l] # tidx[l])
                => (queue' = queue /\ queue_lock' = queue_lock)
      ]_vars

(* A take-next call returned the head of the old queue while the tasks of  *)
(* a later invocation were running.                                        *)
C30_Witness ==
    \E l \in Loaders :
        /\ lpc[l] = "gather"
        /\ \E i \in Posts : tpc[l][i] \notin {"none", "ready", "done"}
        /\ cpc = "return"
        /\ cop \in {"getUrl", "getPhoto"}
        /\ queue # <<>>
        /\ cres = queue[Len(queue)]

----------------------------------------------------------------------------
(* C31: when loadPostsAsync has returned, the value it returned is the     *)
(* number of elements of _temp_queue, which is the number of items its     *)
(* swap installed in _queue and the size of _queue, whatever the take-next *)
(* and removeUrl calls and the other invocation did meanwhile.             *)
C31_ReturnedCount ==
    \A l \in Loaders :
        lpc[l] = "returned"
            => /\ lret[l] = Cardinality(temp_queue)
               /\ lret[l] = Len(loaded[l])
               /\ base = loaded[l]
               /\ lret[l] = Len(queue)

(* An invocation returned a positive count after its swap replaced a      *)
(* queue that held items, while the other invocation was under way.        *)
C31_Witness ==
    \E l \in Loaders :
        /\ lpc[l] = "returned"
        /\ lret[l] >= 1
        /\ last_swap = "over items"
        /\ \E k \in Loaders \ {l} : lpc[k] # "idle"

----------------------------------------------------------------------------
(* C32: getUrl never takes from an empty queue.  Whatever removeUrl and    *)
(* the swaps of loadPostsAsync do, the blocking get of _rotateQueue runs   *)
(* on a queue with items, the call never stays blocked in it, and getUrl   *)
(* ends with a url of the queue or with EmptyQueueException.               *)
C32_NeverTakesFromEmpty ==
    /\ (rev = "scripts" /\ cpc = "rot_locked") => queue # <<>>
    /\ cpc # "blocked"
    /\ (cop = "getUrl" /\ cpc = "return") => cres \in Range(queue)
    /\ (cop = "getUrl" /\ cpc = "raise") => cres = EmptyQueueException

(* getUrl found items and holds the lock for the blocking get, after a     *)
(* swap that replaced a queue with items, while an invocation of           *)
(* loadPostsAsync is under way.                                            *)
C32_Witness ==
    /\ rev = "scripts"
    /\ cop = "getUrl"
    /\ cpc = "rot_locked"
    /\ last_swap = "over items"
    /\ \E l \in Loaders : lpc[l] # "idle"

----------------------------------------------------------------------------
(* C33: the two locks cannot deadlock.  A lock is only ever held by the    *)
(* coroutine that is running, so nobody waits for a lock whose holder is   *)
(* suspended; both locks are held together only by the swap of             *)
(* loadPostsAsync, which holds the queue lock from before it takes the     *)
(* staging lock until after it gives the staging lock back; a task, a      *)
(* reset or a size call that holds the staging lock holds no queue lock;   *)
(* and an invocation that is past its swap holds neither.                  *)
C33_NoLockCycle ==
    /\ queue_lock # NoProc => running = queue_lock
    /\ temp_queue_lock # NoProc => running = temp_queue_lock
    /\ \A l \in Loaders :
         /\ lpc[l] \in {"swap_q", "swap_qt", "installed", "drained"}
                => queue_lock = LoaderProc(l)
         /\ lpc[l] = "released_t"
                => queue_lock = LoaderProc(l) /\ temp_queue_lock = NoProc
         /\ temp_queue_lock = LoaderProc(l)
                => \/ lpc[l] = "reset_locked" /\ queue_lock = NoProc
                   \/ /\ lpc[l] \in {"swap_qt", "installed"}
                      /\ rev = "scripts"
                      /\ queue_lock = LoaderProc(l)
         /\ lpc[l] \in {"returning", "returned", "idle", "listing", "gather"}
                => /\ queue_lock # LoaderProc(l)
                   /\ temp_queue_lock # LoaderProc(l)
    /\ (temp_queue_lock # NoProc /\ temp_queue_lock.k # "loader")
           => queue_lock = NoProc

(* The swap holds both locks while a task of the other invocation has not  *)
(* staged its url yet.                                                     *)
C33_Witness ==
    \E l \in Loaders :
        /\ lpc[l] = "swap_qt"
        /\ queue_lock = LoaderProc(l)
        /\ temp_queue_lock = LoaderProc(l)
        /\ \E k \in Loaders \ {l}, i \in Posts :
               tpc[k][i] \notin {"none", "done", "raised"}

----------------------------------------------------------------------------
(* C34: an invocation of loadPostsAsync that has terminated, by returning  *)
(* or by an exception, has no validation task left that still waits for a  *)
(* gate or holds one: every task of it went through the listing gate and   *)
(* gave it back, and both gates are whole again.                           *)
C34_TerminatesWithTasksDone ==
    \A l \in Loaders :
        lpc[l] \in {"returned", "list_failed", "task_failed"}
            => /\ \A i \in Posts : tpc[l][i] \in {"none", "done", "raised"}
               /\ praw_permits = PrawLimit
               /\ http_permits = HttpLimit

----------------------------------------------------------------------------
(* C35: whenever no Settings operation is in progress the lock of every    *)
(* Settings object is free, also after a load() that failed, so that the   *)
(* next get, set, apply or save on the object can take it.                 *)
C35_LockFreeWhenIdle ==
    (\A c \in Callers : spc[c] = "idle")
        => \A i \in Instances : _data_lock[i] = NoCaller

----------------------------------------------------------------------------
(* The /corgo handler is at its end: it returns, or an exception leaves it. *)
HandlerEnded ==
    /\ cpc \in {"return", "raise"}
    /\ cop \in {"corgo", "send_photo"} \/ (cop = "getUrl" /\ cpc = "raise")

CorgosSent == _settings[MainInstance][Counter]

(* C36: a /corgo request of a chat that is not banned ends in one of two   *)
(* ways: one photo was sent and telegram_corgos_sent went up by one, or    *)
(* the wait message was sent and telegram_corgos_sent is as it was.  No    *)
(* exception leaves the handler and the counter counts no photo that was   *)
(* not sent.                                                               *)
C36_PhotoOrWait ==
    HandlerEnded =>
        \/ /\ cpc = "return"
           /\ cop = "send_photo"
           /\ CorgosSent = Func("inc", InitialSettings[Counter])
        \/ /\ cpc = "return"
           /\ cop = "corgo"
           /\ cres \in {WaitMessage, WaitMessageAndJob}
           /\ CorgosSent = InitialSettings[Counter]

----------------------------------------------------------------------------
(* C37: in the retrying revision a /corgo request of a chat that is not    *)
(* banned comes to its end, with a photo sent or with the retry-later      *)
(* message, also when send_photo fails for every url of the queue: the     *)
(* loop of getImage, send_photo and sleep does not run forever.            *)
C37_RetryTerminates ==
    (cop = "corgo_retry" /\ cpc = "get") ~> (cop = "corgo_retry" /\ cpc = "return")


(* C38: in the cache revision, when loadPostsAsync has completed every     *)
(* file path of the serving queue names a file of the cache folder (files  *)
(* are written only by downloads whose content type is in _image_formats), *)
(* and right after the cleanup step the cache folder holds no file whose   *)
(* path is not in the staging set.                                         *)
C38_CacheConsistent ==
    rev = "cache" =>
        \A l \in Loaders :
            /\ lpc[l] = "returned" => Range(queue) \subseteq cache_folder
            /\ lpc[l] = "shuffle" => cache_folder \subseteq temp_queue

====
